---------------------------- MODULE Spec2Model ----------------------------
(***************************************************************************)
(* A model of sugarzero, a context-first logging helper over zerolog.      *)
(*                                                                         *)
(* The program state is the process-wide logger slot (globalLogger), the   *)
(* one-time guard (configureZerolog), the logger handles with their        *)
(* mutable level, the carriers (context.Context values) held by the        *)
(* program, the backing arrays of the []any field slices stored in the     *)
(* carriers, and the records written to the sinks.                         *)
(***************************************************************************)
EXTENDS Integers, Sequences, FiniteSets, TLC

(***************************************************************************)
(* Bounds of the model.                                                    *)
(***************************************************************************)
MaxCtx == 4
MaxCells == 8
MaxHandles == 2
MaxRecords == 2

(***************************************************************************)
(* zerolog levels.                                                         *)
(***************************************************************************)
TraceLevel == -1
DebugLevel == 0
InfoLevel == 1
WarnLevel == 2
ErrorLevel == 3
FatalLevel == 4
PanicLevel == 5
NoLevel == 6
Disabled == 7

Levels == {TraceLevel, DebugLevel, InfoLevel, WarnLevel, ErrorLevel,
           FatalLevel, PanicLevel, NoLevel, Disabled}

\* zerolog.Level.String(): the lower-case name of a level.
LevelString(lvl) ==
    CASE lvl = TraceLevel -> "trace"
      [] lvl = DebugLevel -> "debug"
      [] lvl = InfoLevel -> "info"
      [] lvl = WarnLevel -> "warn"
      [] lvl = ErrorLevel -> "error"
      [] lvl = FatalLevel -> "fatal"
      [] lvl = PanicLevel -> "panic"
      [] lvl = Disabled -> "disabled"
      [] OTHER -> ""

\* The level texts callers pass; "bogus" and "verbose" name no level.
LevelTexts == {"", "trace", "debug", "Debug", "info", "INFO", "warn", "WARN",
               "error", "Error", "fatal", "panic", "disabled", "bogus", "verbose"}

\* strings.ToLower on the level texts.
ToLower(s) ==
    CASE s = "Debug" -> "debug"
      [] s = "INFO" -> "info"
      [] s = "WARN" -> "warn"
      [] s = "Error" -> "error"
      [] OTHER -> s

\* strings.ToUpper on the level names.
ToUpper(s) ==
    CASE s = "trace" -> "TRACE"
      [] s = "debug" -> "DEBUG"
      [] s = "info" -> "INFO"
      [] s = "warn" -> "WARN"
      [] s = "error" -> "ERROR"
      [] s = "fatal" -> "FATAL"
      [] s = "panic" -> "PANIC"
      [] s = "disabled" -> "DISABLED"
      [] OTHER -> s

\* zerolog.ParseLevel: the level whose name the text is, or an error.
ZerologParseLevel(s) ==
    CASE s = "trace" -> [lvl |-> TraceLevel, err |-> FALSE]
      [] s = "debug" -> [lvl |-> DebugLevel, err |-> FALSE]
      [] s = "info" -> [lvl |-> InfoLevel, err |-> FALSE]
      [] s = "warn" -> [lvl |-> WarnLevel, err |-> FALSE]
      [] s = "error" -> [lvl |-> ErrorLevel, err |-> FALSE]
      [] s = "fatal" -> [lvl |-> FatalLevel, err |-> FALSE]
      [] s = "panic" -> [lvl |-> PanicLevel, err |-> FALSE]
      [] s = "disabled" -> [lvl |-> Disabled, err |-> FALSE]
      [] s = "" -> [lvl |-> NoLevel, err |-> FALSE]
      [] OTHER -> [lvl |-> NoLevel, err |-> TRUE]

\* A wrong parseLevel: an unknown text is silently taken as info.
parseLevelDefaulting(level) ==
    IF level = ""
    THEN [lvl |-> InfoLevel, err |-> FALSE]
    ELSE LET r == ZerologParseLevel(ToLower(level))
         IN IF r.err THEN [lvl |-> InfoLevel, err |-> FALSE]
                     ELSE [lvl |-> r.lvl, err |-> FALSE]

\* parseLevel: "" is info; otherwise the lower-cased text is parsed, and an
\* unknown text is an error (returned with InfoLevel).
parseLevel(level) ==
    IF level = ""
    THEN [lvl |-> InfoLevel, err |-> FALSE]
    ELSE LET r == ZerologParseLevel(ToLower(level))
         IN IF r.err THEN [lvl |-> InfoLevel, err |-> TRUE]
                     ELSE [lvl |-> r.lvl, err |-> FALSE]

\* The text of parseLevel's error up to the wrapped zerolog error:
\* fmt.Errorf("invalid log level %q: %w", level, err)
InvalidLevelMessage(level) == "invalid log level \"" \o level \o "\""

(***************************************************************************)
(* Values of type any: strings, integers and the nil interface.            *)
(***************************************************************************)
AnyStr(s) == [t |-> "string", s |-> s, n |-> 0]
AnyInt(n) == [t |-> "int", s |-> "", n |-> n]
NilAny == [t |-> "nil", s |-> "", n |-> 0]

\* keyvals[i].(string): the type assertion of a key.
IsString(x) == x.t = "string"

(***************************************************************************)
(* Go slices of any: a header (array, len, cap) over a backing array of    *)
(* the heap.  arr = 0 is the nil slice.                                    *)
(***************************************************************************)
NilSlice == [arr |-> 0, len |-> 0, cap |-> 0]

\* The elements a slice header denotes.
Elems(heap, s) == [i \in 1..s.len |-> heap[s.arr][i]]

\* make([]any, 0, n): a fresh backing array of n nil elements.
Make(heap, n) ==
    [heap |-> Append(heap, [i \in 1..n |-> NilAny]),
     s |-> [arr |-> Len(heap) + 1, len |-> 0, cap |-> n]]

\* append(s, xs...): in place when the capacity suffices, else into a grown
\* copy.
AppendSlice(heap, s, xs) ==
    LET need == s.len + Len(xs)
    IN IF need <= s.cap /\ s.arr # 0
       THEN [heap |-> [heap EXCEPT ![s.arr] =
                          [i \in 1..s.cap |->
                              IF i > s.len /\ i <= need THEN xs[i - s.len]
                              ELSE @[i]]],
             s |-> [s EXCEPT !.len = need]]
       ELSE LET newcap == IF need > 2 * s.cap THEN need ELSE 2 * s.cap
                old == IF s.arr = 0 THEN <<>> ELSE Elems(heap, s)
            IN [heap |-> Append(heap,
                           [i \in 1..newcap |->
                               IF i <= s.len THEN old[i]
                               ELSE IF i <= need THEN xs[i - s.len]
                               ELSE NilAny]),
                s |-> [arr |-> Len(heap) + 1, len |-> need, cap |-> newcap]]

(***************************************************************************)
(* Carriers: context.Context values.  A carrier is the nil context or a    *)
(* context holding a value for loggerKey (a handle, 0 when none) and a     *)
(* value for fieldsKey (a slice header, the nil slice when none).          *)
(***************************************************************************)
\* A context also holds the span of the tracing collaborator, if one was
\* started on it: whether it records, its trace id and its span id.
NoSpan == [present |-> FALSE, recording |-> FALSE, trace |-> "", span |-> ""]

NilCtx == [kind |-> "nil", logger |-> 0, fields |-> NilSlice, span |-> NoSpan]
Background == [kind |-> "ctx", logger |-> 0, fields |-> NilSlice, span |-> NoSpan]

\* context.WithValue(ctx, loggerKey, h)
WithLoggerValue(ctx, h) == [ctx EXCEPT !.logger = h]

\* A wrong store of the fields: they are stored in a fresh context.
WithFieldsValueFresh(ctx, flat) ==
    [kind |-> "ctx", logger |-> 0, fields |-> flat, span |-> NoSpan]

\* context.WithValue(ctx, fieldsKey, flat)
WithFieldsValue(ctx, flat) == [ctx EXCEPT !.fields = flat]

\* if ctx == nil { ctx = context.Background() }
OrBackground(ctx) == IF ctx.kind = "nil" THEN Background ELSE ctx

\* flattenedFieldsFromContext: the stored slice, nil when absent or empty.
flattenedFieldsFromContext(ctx) ==
    IF ctx.kind = "nil" THEN NilSlice
    ELSE IF ctx.fields.arr # 0 /\ ctx.fields.len > 0 THEN ctx.fields
    ELSE NilSlice

\* loggerFromContextValue: the attached handle, 0 (nil) when none.
loggerFromContextValue(ctx) ==
    IF ctx.kind = "nil" THEN 0
    ELSE IF ctx.logger # 0 THEN ctx.logger
    ELSE 0

(***************************************************************************)
(* Field maps: map[string]any, with the nil map.                           *)
(***************************************************************************)
NilMap == [present |-> FALSE, m |-> [k \in {} |-> NilAny]]

\* A wrong map store: a key already present keeps its value.
MapPutIfAbsent(m, k, v) ==
    [x \in (DOMAIN m) \cup {k} |-> IF x \in DOMAIN m THEN m[x] ELSE v]

\* fields[key] = value
MapPut(m, k, v) == [x \in (DOMAIN m) \cup {k} |-> IF x = k THEN v ELSE m[x]]

\* for i := 0; i+1 < len(flat); i += 2 { key, _ := flat[i].(string); fields[key] = flat[i+1] }
RECURSIVE FlatToMap(_, _, _)
FlatToMap(flat, i, m) ==
    IF i + 1 > Len(flat) THEN m
    ELSE LET key == IF IsString(flat[i]) THEN flat[i].s ELSE ""
         IN FlatToMap(flat, i + 2, MapPut(m, key, flat[i + 1]))

\* A wrong FieldsFromContext: the map is made whatever the list holds.
FieldsFromContextAlwaysMakes(heap, ctx) ==
    LET flat == flattenedFieldsFromContext(ctx)
    IN [present |-> TRUE,
        m |-> FlatToMap(Elems(heap, flat), 1, [k \in {} |-> NilAny])]

\* FieldsFromContext: nil when no fields are attached, else a fresh map.
FieldsFromContext(heap, ctx) ==
    LET flat == flattenedFieldsFromContext(ctx)
    IN IF flat.len = 0 THEN NilMap
       ELSE [present |-> TRUE,
             m |-> FlatToMap(Elems(heap, flat), 1, [k \in {} |-> NilAny])]

(***************************************************************************)
(* WithFields and WithField.                                               *)
(***************************************************************************)
\* A wrong truncation: the unpaired key is given the value nil.
DropOddPadNil(keyvals) ==
    IF Len(keyvals) % 2 # 0 THEN Append(keyvals, NilAny)
    ELSE keyvals

\* if len(keyvals)%2 != 0 { keyvals = keyvals[:len(keyvals)-1] }
DropOdd(keyvals) ==
    IF Len(keyvals) % 2 # 0 THEN SubSeq(keyvals, 1, Len(keyvals) - 1)
    ELSE keyvals

\* A wrong loop: every pair is appended, whatever its key.
RECURSIVE KeepAllPairs(_, _, _)
KeepAllPairs(hs, keyvals, i) ==
    IF i > Len(keyvals) THEN hs
    ELSE KeepAllPairs(AppendSlice(hs.heap, hs.s, <<keyvals[i], keyvals[i + 1]>>),
                      keyvals, i + 2)

\* The loop over the pairs: a pair is appended to flat unless its key is not
\* a string or is empty.
RECURSIVE KeepPairs(_, _, _)
KeepPairs(hs, keyvals, i) ==
    IF i > Len(keyvals) THEN hs
    ELSE LET key == keyvals[i]
         IN IF ~IsString(key) \/ key.s = ""
            THEN KeepPairs(hs, keyvals, i + 2)
            ELSE KeepPairs(AppendSlice(hs.heap, hs.s, <<key, keyvals[i + 1]>>),
                           keyvals, i + 2)

\* A wrong merge: the new pairs are appended to the existing slice itself.
MergeInPlace(heap, existing, flat) ==
    AppendSlice(heap, existing, Elems(heap, flat))

\* A wrong merge: the new pairs come before the existing ones.
MergeNewFirst(heap, existing, flat) ==
    LET m0 == Make(heap, existing.len + flat.len)
        m1 == AppendSlice(m0.heap, m0.s, Elems(m0.heap, flat))
    IN AppendSlice(m1.heap, m1.s, Elems(m1.heap, existing))

\* merged := make([]any, 0, len(existing)+len(flat));
\* merged = append(merged, existing...); flat = append(merged, flat...)
MergeFields(heap, existing, flat) ==
    LET m0 == Make(heap, existing.len + flat.len)
        m1 == AppendSlice(m0.heap, m0.s, Elems(m0.heap, existing))
    IN AppendSlice(m1.heap, m1.s, Elems(m1.heap, flat))

\* A wrong WithFields: the slice is stored even when no pair survived.
WithFieldsAlwaysStores(heap, ctx, keyvals) ==
    LET c0 == OrBackground(ctx)
        kv == DropOdd(keyvals)
        f0 == KeepPairs(Make(heap, Len(kv)), kv, 1)
        existing == c0.fields
        f1 == IF existing.arr # 0 /\ existing.len > 0
              THEN MergeFields(f0.heap, existing, f0.s)
              ELSE f0
    IN [heap |-> f1.heap, ctx |-> WithFieldsValue(c0, f1.s)]

\* WithFields(ctx, keyvals...): the heap after the call and the carrier
\* returned.
WithFields(heap, ctx, keyvals) ==
    LET c0 == OrBackground(ctx)
    IN IF Len(keyvals) = 0 THEN [heap |-> heap, ctx |-> c0]
       ELSE LET kv == DropOdd(keyvals)
                f0 == KeepPairs(Make(heap, Len(kv)), kv, 1)
            IN IF f0.s.len = 0 THEN [heap |-> f0.heap, ctx |-> c0]
               ELSE LET existing == c0.fields
                        f1 == IF existing.arr # 0 /\ existing.len > 0
                              THEN MergeFields(f0.heap, existing, f0.s)
                              ELSE f0
                    IN [heap |-> f1.heap, ctx |-> WithFieldsValue(c0, f1.s)]

\* WithField(ctx, key, value): an empty key returns ctx itself.
WithField(heap, ctx, key, value) ==
    IF key = "" THEN [heap |-> heap, ctx |-> ctx]
    ELSE WithFields(heap, ctx, <<AnyStr(key), value>>)

(***************************************************************************)
(* The tracing bridge.                                                     *)
(***************************************************************************)
\* tracer.Start(ctx, name): the carrier with the started span.
ContextWithSpan(ctx, sp) == [ctx EXCEPT !.span = sp]

\* The ambient span lookup: the span of the carrier, none for a nil carrier.
SpanFromContext(ctx) == IF ctx.kind = "nil" THEN NoSpan ELSE ctx.span

\* The two fields of a span, in their textual forms.
TraceFields(sp) ==
    <<AnyStr("trace_id"), AnyStr(sp.trace), AnyStr("span_id"), AnyStr(sp.span)>>

\* A wrong WithTracing: the span is folded in whether it records or not.
WithTracingAnySpan(heap, ctx) ==
    LET sp == SpanFromContext(ctx)
    IN IF sp.present THEN WithFields(heap, ctx, TraceFields(sp))
       ELSE [heap |-> heap, ctx |-> ctx]

\* WithTracing(ctx): the identifiers of a recording span are folded into the
\* fields; the carrier is returned as it is otherwise.
WithTracing(heap, ctx) ==
    LET sp == SpanFromContext(ctx)
    IN IF sp.present /\ sp.recording
       THEN WithFields(heap, ctx, TraceFields(sp))
       ELSE [heap |-> heap, ctx |-> ctx]

\* The garbage collector: of the arrays a call allocated, only the one the
\* returned carrier references stays, and only when the carrier is kept; it
\* takes the next array number.
Collect(old, r, kept) ==
    LET prefix == [i \in 1..Len(old) |-> r.heap[i]]
    IN IF r.ctx.fields.arr > Len(old)
       THEN [heap |-> IF kept THEN Append(prefix, r.heap[r.ctx.fields.arr])
                      ELSE prefix,
             ctx |-> [r.ctx EXCEPT !.fields.arr = Len(old) + 1]]
       ELSE [heap |-> prefix, ctx |-> r.ctx]

(***************************************************************************)
(* Sinks and writers.  A writer is the sequence of sinks a write reaches,  *)
(* in order.                                                               *)
(***************************************************************************)
Stdout == 0
Sinks == {Stdout, 1, 2}

\* The writers ...io.Writer arguments of New.
WriterChoices == {<<>>, <<1>>, <<1, 2>>}

\* A wrong selectWriter: of several writers only the first is used.
selectWriterFirstOnly(writers) ==
    IF Len(writers) = 0 THEN <<Stdout>>
    ELSE <<writers[1]>>

\* selectWriter: os.Stdout for none, the writer itself for one, else
\* io.MultiWriter over all of them.
selectWriter(writers) ==
    IF Len(writers) = 0 THEN <<Stdout>>
    ELSE IF Len(writers) = 1 THEN <<writers[1]>>
    ELSE writers

\* The writer's Write: the record reaches each of the writer's sinks, in order.
RECURSIVE WriteAll(_, _, _)
WriteAll(sk, w, rec) ==
    IF Len(w) = 0 THEN sk
    ELSE WriteAll([sk EXCEPT ![Head(w)] = Append(@, rec)], Tail(w), rec)

(***************************************************************************)
(* Messages.                                                               *)
(***************************************************************************)
MissingLoggerMessage == "context does not contain a logger, using fallback logger"

\* fmt's %v of a value.
FmtV(x) ==
    CASE x.t = "string" -> x.s
      [] x.t = "int" /\ x.n = 1 -> "1"
      [] x.t = "int" /\ x.n = 2 -> "2"
      [] x.t = "int" /\ x.n = 7 -> "7"
      [] OTHER -> "<nil>"

\* fmt.Sprint: the operands' %v, a space between two operands when neither
\* is a string.
RECURSIVE Sprint(_)
Sprint(args) ==
    IF Len(args) = 0 THEN ""
    ELSE IF Len(args) = 1 THEN FmtV(args[1])
    ELSE FmtV(args[1])
         \o (IF ~IsString(args[1]) /\ ~IsString(args[2]) THEN " " ELSE "")
         \o Sprint(Tail(args))

\* fmt.Sprintf over a format given as its pieces: a verb takes the next
\* argument, any other piece is literal text.
RECURSIVE Sprintf(_, _)
Sprintf(format, args) ==
    IF Len(format) = 0
    THEN IF Len(args) = 0 THEN "" ELSE "%!(EXTRA)"
    ELSE IF Head(format) = "%v"
         THEN IF Len(args) = 0 THEN "%!v(MISSING)" \o Sprintf(Tail(format), args)
              ELSE FmtV(Head(args)) \o Sprintf(Tail(format), Tail(args))
         ELSE Head(format) \o Sprintf(Tail(format), args)

\* The message writeArgs renders: "" for no argument, %v of a single
\* argument, fmt.Sprint of several.
ArgsMessage(args) ==
    IF Len(args) = 0 THEN ""
    ELSE IF Len(args) = 1 THEN Sprintf(<<"%v">>, <<args[1]>>)
    ELSE Sprint(args)

(***************************************************************************)
(* The state.                                                              *)
(***************************************************************************)
VARIABLES
    globalLogger,      \* the process-wide handle, 0 when nil
    configureZerolog,  \* the sync.Once: "fresh", "running" or "done"
    upperLevels,       \* zerolog.LevelFieldMarshalFunc upper-cases the level
    handles,           \* the ZeroLoggers constructed: level and zerolog.Logger
    mu,                \* each handle's RWMutex: its writer and its readers
    heap,              \* the backing arrays of the field slices
    ctxs,              \* the carriers the program holds
    snap,              \* FieldsFromContext of each carrier when it was obtained
    sinks,             \* the records written to each sink
    procs,             \* the goroutines inside a call: position and locals
    last               \* the last completed call: arguments and results

vars == <<globalLogger, configureZerolog, upperLevels, handles, mu, heap,
          ctxs, snap, sinks, procs, last>>

Procs == {1, 2}

\* A goroutine outside any call.  Inside a call, pc is the source line it is
\* about to execute and the other fields are the call's locals: the carrier,
\* the level text, the parsed level, the writers, the handle, the severity
\* and the zerolog.Logger it copied.  seen is the process-wide handle the
\* goroutine has observed so far; raced tells whether a Reset ran since the
\* goroutine entered its call.
NoLogger == [level |-> 0, w |-> <<>>]
Idle == [pc |-> "idle", ctx |-> NilCtx, text |-> "", lvl |-> 0, w |-> <<>>,
         h |-> 0, sev |-> 0, obs |-> NoLogger, seen |-> 0, raced |-> FALSE]

\* A completed call: the operation, the handle attached to the carrier it was
\* given, its level text, severity and style, what it returned (ret, with
\* the carrier out and the string str), the handle it resolved, what the
\* handle's method returned to it and, for a handle's write, the level the
\* write was gated against; where a program observes them, the carrier given
\* to a derivation and its key/value arguments.
NoCall == [op |-> "", attached |-> 0, out |-> NilCtx, text |-> "", sev |-> 0,
           style |-> "", ret |-> "", str |-> "", h |-> 0, inner |-> "",
           gate |-> 0, in |-> NilCtx, args |-> <<>>]

Init ==
    /\ globalLogger = 0
    /\ configureZerolog = "fresh"
    /\ upperLevels = FALSE
    /\ handles = <<>>
    /\ mu = <<>>
    /\ heap = <<>>
    /\ ctxs = {NilCtx, Background}
    /\ snap = [c \in {NilCtx, Background} |-> NilMap]
    /\ sinks = [s \in Sinks |-> <<>>]
    /\ procs = [p \in Procs |-> Idle]
    /\ last = NoCall

\* The number of array cells allocated.
RECURSIVE Cells(_)
Cells(hp) == IF Len(hp) = 0 THEN 0 ELSE Len(Head(hp)) + Cells(Tail(hp))

\* Whether the program keeps a carrier a call returned: it holds at most
\* MaxCtx carriers and at most MaxCells array cells, and drops the carrier
\* otherwise.
Keeps(hp, c) ==
    \/ c \in ctxs
    \/ /\ Cardinality(ctxs) < MaxCtx
       /\ \/ c.fields.arr = 0
          \/ c.fields.arr <= Len(heap)
          \/ Cells(heap) + Len(hp[c.fields.arr]) <= MaxCells

\* The carrier a call returned joins the carriers the program holds, unless
\* it is dropped.
Hold(c, hp) ==
    IF c \in ctxs \/ Cardinality(ctxs) >= MaxCtx
    THEN /\ ctxs' = ctxs
         /\ snap' = snap
    ELSE /\ ctxs' = ctxs \cup {c}
         /\ snap' = [x \in ctxs \cup {c} |->
                        IF x = c THEN FieldsFromContext(hp, c) ELSE snap[x]]

(***************************************************************************)
(* The handle: ZeroLogger.                                                 *)
(***************************************************************************)
\* &ZeroLogger{logger: zerolog.New(writer).Level(lvl)..., level: lvl}
NewZeroLogger(lvl, writer) ==
    [level |-> lvl, logger |-> [level |-> lvl, w |-> writer]]

\* An unlocked RWMutex.
Unlocked == [w |-> 0, r |-> {}]

\* The severities of the write operations: Debug, Info, Warn, Error, Fatal.
Severities == {DebugLevel, InfoLevel, WarnLevel, ErrorLevel, FatalLevel}

\* The three styles of a write operation: X(args), Xf(format, args), Xln(args).
Styles == {"args", "f", "ln"}

\* A wrong gate: a record at the logger's own level is dropped.
ShouldStrict(logger, lvl) == lvl > logger.level

\* logger.WithLevel(level) returns a nil event unless the level is at or
\* above the logger's level.
Should(logger, lvl) == lvl >= logger.level

\* The level field of a record, as zerolog.LevelFieldMarshalFunc renders it.
LevelField(lvl) ==
    IF upperLevels THEN ToUpper(LevelString(lvl)) ELSE LevelString(lvl)

\* The record an event writes: level, message and the fields in the order
\* event.Fields received them.
Record(lvl, msg, fields) ==
    [level |-> LevelField(lvl), message |-> msg, fields |-> fields]

\* A wrong write: the fields of the carrier are not attached.
EventFieldsDropped(ctx) == <<>>

\* The fields writeArgs and writef attach: those of the carrier, if any.
EventFields(ctx) ==
    LET flat == flattenedFieldsFromContext(ctx)
    IN IF flat.len > 0 THEN Elems(heap, flat) ELSE <<>>

\* ZeroLogger.writeArgs: the sinks after the call.
writeArgs(sk, h, ctx, level, args) ==
    LET logger == handles[h].logger
    IN IF ~Should(logger, level) THEN sk
       ELSE WriteAll(sk, logger.w,
                     Record(level, ArgsMessage(args), EventFields(ctx)))

\* ZeroLogger.writef: the sinks after the call.
writef(sk, h, ctx, level, format, args) ==
    LET logger == handles[h].logger
    IN IF ~Should(logger, level) THEN sk
       ELSE WriteAll(sk, logger.w,
                     Record(level, Sprintf(format, args), EventFields(ctx)))

\* ZeroLogger.Debug ... Fatalln: the f style calls writef, the two others
\* writeArgs.
HandleWrite(sk, h, ctx, level, style, format, args) ==
    IF style = "f" THEN writef(sk, h, ctx, level, format, args)
    ELSE writeArgs(sk, h, ctx, level, args)

\* A wrong warning: it is written whatever the logger's level.
logMissingLoggerWarningUngated(sk, h) ==
    WriteAll(sk, handles[h].logger.w,
             Record(WarnLevel, MissingLoggerMessage, <<>>))

\* ZeroLogger.logMissingLoggerWarning: the sinks after the call.
logMissingLoggerWarning(sk, h) ==
    LET logger == handles[h].logger
    IN IF ~Should(logger, WarnLevel) THEN sk
       ELSE WriteAll(sk, logger.w,
                     Record(WarnLevel, MissingLoggerMessage, <<>>))

\* A wrong SetLogLevel: the level is stored but the logger keeps its gate.
HandleSetLogLevelKeepsGate(hs, h, level) ==
    LET r == parseLevel(level)
    IN IF r.err THEN [handles |-> hs, err |-> TRUE]
       ELSE [handles |-> [hs EXCEPT ![h].level = r.lvl], err |-> FALSE]

\* A wrong SetLogLevel: the parse error is not checked.
HandleSetLogLevelUnchecked(hs, h, level) ==
    LET r == parseLevel(level)
    IN [handles |-> [hs EXCEPT ![h].level = r.lvl, ![h].logger.level = r.lvl],
        err |-> r.err]

\* ZeroLogger.SetLogLevel: the handles after the call and whether it
\* returned an error.
HandleSetLogLevel(hs, h, level) ==
    LET r == parseLevel(level)
    IN IF r.err THEN [handles |-> hs, err |-> TRUE]
       ELSE [handles |-> [hs EXCEPT ![h].level = r.lvl,
                                    ![h].logger.level = r.lvl],
             err |-> FALSE]

\* ZeroLogger.GetLogLevel
HandleGetLogLevel(h) == LevelString(handles[h].level)

(***************************************************************************)
(* The package-level functions, each as one call of a sequential program.  *)
(***************************************************************************)
\* A wrong Reset: the one-time guard is not renewed.
ResetGlobalOnly ==
    /\ globalLogger' = 0
    /\ configureZerolog' = configureZerolog
    /\ last' = [NoCall EXCEPT !.op = "Reset", !.ret = "void"]
    /\ UNCHANGED <<upperLevels, handles, mu, heap, ctxs, snap, sinks, procs>>

\* Reset
Reset ==
    /\ globalLogger' = 0
    /\ configureZerolog' = "fresh"
    /\ last' = [NoCall EXCEPT !.op = "Reset", !.ret = "void"]
    /\ UNCHANGED <<upperLevels, handles, mu, heap, ctxs, snap, sinks, procs>>

\* A wrong New: a handle is constructed on every call with a valid level.
NewAlways(ctx, level, writers) ==
    LET c0 == OrBackground(ctx)
        r == parseLevel(level)
        id == Len(handles) + 1
        call == [NoCall EXCEPT !.op = "New", !.text = level,
                               !.attached = loggerFromContextValue(ctx)]
    IN /\ ~r.err
       /\ Len(handles) < MaxHandles
       /\ upperLevels' = TRUE
       /\ handles' = Append(handles, NewZeroLogger(r.lvl, selectWriter(writers)))
       /\ mu' = Append(mu, Unlocked)
       /\ globalLogger' = id
       /\ configureZerolog' = "done"
       /\ Hold(WithLoggerValue(c0, id), heap)
       /\ last' = [call EXCEPT !.out = WithLoggerValue(c0, id),
                               !.ret = "ok", !.h = id]
       /\ UNCHANGED <<heap, sinks, procs>>

\* New(ctx, level, writers...): the existing process-wide handle is reused;
\* otherwise the level is parsed, the writer selected, and the handle is
\* constructed and stored inside configureZerolog.Do.
New(ctx, level, writers) ==
    LET c0 == OrBackground(ctx)
        r == parseLevel(level)
        id == Len(handles) + 1
        call == [NoCall EXCEPT !.op = "New", !.text = level,
                               !.attached = loggerFromContextValue(ctx)]
    IN IF globalLogger # 0
       THEN /\ Hold(WithLoggerValue(c0, globalLogger), heap)
            /\ last' = [call EXCEPT !.out = WithLoggerValue(c0, globalLogger),
                                    !.ret = "ok", !.h = globalLogger]
            /\ UNCHANGED <<globalLogger, configureZerolog, upperLevels,
                           handles, mu, heap, sinks, procs>>
       ELSE IF r.err
       THEN /\ Hold(c0, heap)
            /\ last' = [call EXCEPT !.out = c0, !.ret = "invalid log level",
                                    !.str = InvalidLevelMessage(level)]
            /\ UNCHANGED <<globalLogger, configureZerolog, upperLevels,
                           handles, mu, heap, sinks, procs>>
       ELSE IF configureZerolog = "fresh"
       THEN /\ Len(handles) < MaxHandles
            /\ upperLevels' = TRUE
            /\ handles' = Append(handles,
                                 NewZeroLogger(r.lvl, selectWriter(writers)))
            /\ mu' = Append(mu, Unlocked)
            /\ globalLogger' = id
            /\ configureZerolog' = "done"
            /\ Hold(WithLoggerValue(c0, id), heap)
            /\ last' = [call EXCEPT !.out = WithLoggerValue(c0, id),
                                    !.ret = "ok", !.h = id]
            /\ UNCHANGED <<heap, sinks, procs>>
       ELSE /\ Hold(c0, heap)
            /\ last' = [call EXCEPT !.out = c0,
                                    !.ret = "logger not initialized"]
            /\ UNCHANGED <<globalLogger, configureZerolog, upperLevels,
                           handles, mu, heap, sinks, procs>>

\* A wrong fallback: fn runs before the warning is logged.
FallbackWarnLast(sk, c0, sev, style, format, args) ==
    IF globalLogger = 0
    THEN [sinks |-> sk, ret |-> "panic", h |-> 0]
    ELSE [sinks |-> logMissingLoggerWarning(
                        HandleWrite(sk, globalLogger,
                                    WithLoggerValue(c0, globalLogger),
                                    sev, style, format, args),
                        globalLogger),
          ret |-> "void", h |-> globalLogger]

\* The fallback branch of withLogger: the warning, then fn on the
\* process-wide handle with the handle attached to the carrier.  A method
\* called on a nil handle panics.
Fallback(sk, c0, sev, style, format, args) ==
    IF globalLogger = 0
    THEN [sinks |-> sk, ret |-> "panic", h |-> 0]
    ELSE [sinks |-> HandleWrite(logMissingLoggerWarning(sk, globalLogger),
                                globalLogger,
                                WithLoggerValue(c0, globalLogger),
                                sev, style, format, args),
          ret |-> "void", h |-> globalLogger]

\* A wrong withLogger: the process-wide handle is preferred to the attached
\* one.
withLoggerGlobalFirst(sk, ctx, sev, style, format, args) ==
    LET c0 == OrBackground(ctx)
        l == loggerFromContextValue(c0)
    IN IF globalLogger # 0
       THEN [sinks |-> HandleWrite(sk, globalLogger, c0, sev, style, format, args),
             ret |-> "void", h |-> globalLogger]
       ELSE IF l # 0
       THEN [sinks |-> HandleWrite(sk, l, c0, sev, style, format, args),
             ret |-> "void", h |-> l]
       ELSE [sinks |-> sk, ret |-> "void", h |-> 0]

\* A wrong withLogger: the fallback is taken without looking at globalLogger.
withLoggerUnguarded(sk, ctx, sev, style, format, args) ==
    LET c0 == OrBackground(ctx)
        l == loggerFromContextValue(c0)
    IN IF l # 0
       THEN [sinks |-> HandleWrite(sk, l, c0, sev, style, format, args),
             ret |-> "void", h |-> l]
       ELSE Fallback(sk, c0, sev, style, format, args)

\* withLogger(ctx, fn), fn being the write of the given severity and style:
\* the sinks after the call, how the call ended and the handle it used.
withLogger(sk, ctx, sev, style, format, args) ==
    LET c0 == OrBackground(ctx)
        l == loggerFromContextValue(c0)
    IN IF l # 0
       THEN [sinks |-> HandleWrite(sk, l, c0, sev, style, format, args),
             ret |-> "void", h |-> l]
       ELSE IF globalLogger # 0
       THEN Fallback(sk, c0, sev, style, format, args)
       ELSE [sinks |-> sk, ret |-> "void", h |-> 0]

\* A wrong dispatch: the fallback lowers the handle's level to warn to let
\* the warning through.
DispatchForcesWarning(ctx, sev, style, format, args) ==
    LET r == withLogger(sinks, ctx, sev, style, format, args)
        forced == loggerFromContextValue(OrBackground(ctx)) = 0 /\ r.h # 0
    IN /\ \A s \in Sinks : Len(sinks[s]) < MaxRecords
       /\ sinks' = r.sinks
       /\ handles' = IF forced
                     THEN [handles EXCEPT ![r.h].level = WarnLevel,
                                          ![r.h].logger.level = WarnLevel]
                     ELSE handles
       /\ last' = [NoCall EXCEPT !.op = "Dispatch", !.sev = sev,
                                 !.attached = loggerFromContextValue(ctx),
                                 !.style = style, !.ret = r.ret, !.h = r.h]
       /\ UNCHANGED <<globalLogger, configureZerolog, upperLevels,
                      mu, heap, ctxs, snap, procs>>

\* Debug(ctx, args...) ... Fatalln(ctx, args...)
Dispatch(ctx, sev, style, format, args) ==
    LET r == withLogger(sinks, ctx, sev, style, format, args)
    IN /\ \A s \in Sinks : Len(sinks[s]) < MaxRecords
       /\ sinks' = r.sinks
       /\ last' = [NoCall EXCEPT !.op = "Dispatch", !.sev = sev,
                                 !.attached = loggerFromContextValue(ctx),
                                 !.style = style, !.ret = r.ret, !.h = r.h]
       /\ UNCHANGED <<globalLogger, configureZerolog, upperLevels, handles,
                      mu, heap, ctxs, snap, procs>>

\* A wrong resolution: the process-wide handle is preferred to the attached
\* one.
ResolveGlobalFirst(ctx) ==
    IF globalLogger # 0 THEN globalLogger ELSE loggerFromContextValue(ctx)

\* The handle a package-level SetLogLevel or GetLogLevel acts on: the one
\* attached to the carrier, else the process-wide one, else none.
Resolve(ctx) ==
    IF loggerFromContextValue(ctx) # 0 THEN loggerFromContextValue(ctx)
    ELSE globalLogger

\* SetLogLevel(ctx, level): returns nothing; inner is what the handle's
\* SetLogLevel returned to it.
SetLogLevel(ctx, level) ==
    LET h == Resolve(ctx)
        r == HandleSetLogLevel(handles, h, level)
        call == [NoCall EXCEPT !.op = "SetLogLevel", !.text = level,
                               !.attached = loggerFromContextValue(ctx),
                               !.ret = "void", !.h = h]
    IN /\ IF h # 0
          THEN /\ handles' = r.handles
               /\ last' = [call EXCEPT !.inner = IF r.err THEN "error"
                                                 ELSE "nil"]
          ELSE /\ handles' = handles
               /\ last' = call
       /\ UNCHANGED <<globalLogger, configureZerolog, upperLevels, mu, heap,
                      ctxs, snap, sinks, procs>>

\* GetLogLevel(ctx): the level's name, "" when no handle resolves.
GetLogLevel(ctx) ==
    LET h == Resolve(ctx)
    IN /\ last' = [NoCall EXCEPT !.op = "GetLogLevel", !.h = h,
                                 !.attached = loggerFromContextValue(ctx),
                                 !.ret = "string",
                                 !.str = IF h # 0 THEN HandleGetLogLevel(h)
                                         ELSE ""]
       /\ UNCHANGED <<globalLogger, configureZerolog, upperLevels, handles,
                      mu, heap, ctxs, snap, sinks, procs>>

\* The carrier a derivation returns, once the arrays it allocated and left
\* unreferenced are collected.
Derived(r0) == Collect(heap, r0, Keeps(r0.heap, r0.ctx)).ctx

\* What a derivation that computed r0 does to the heap and to the carriers
\* the program holds.
Derive(r0) ==
    LET r == Collect(heap, r0, Keeps(r0.heap, r0.ctx))
    IN /\ heap' = r.heap
       /\ IF Keeps(r0.heap, r0.ctx) THEN Hold(r.ctx, r.heap)
          ELSE UNCHANGED <<ctxs, snap>>
       /\ UNCHANGED <<globalLogger, configureZerolog, upperLevels, handles,
                      mu, sinks, procs>>

\* WithFields(ctx, keyvals...)
WithFieldsCall(ctx, keyvals) ==
    /\ Derive(WithFields(heap, ctx, keyvals))
    /\ last' = [NoCall EXCEPT !.op = "WithFields", !.ret = "ctx"]

\* WithField(ctx, key, value)
WithFieldCall(ctx, key, value) ==
    /\ Derive(WithField(heap, ctx, key, value))
    /\ last' = [NoCall EXCEPT !.op = "WithField", !.ret = "ctx"]

\* WithFields(ctx, keyvals...), by a program that keeps what it passed and
\* what it got back.
WithFieldsObserved(ctx, keyvals) ==
    /\ Derive(WithFields(heap, ctx, keyvals))
    /\ last' = [NoCall EXCEPT !.op = "WithFields", !.ret = "ctx",
                              !.in = ctx, !.args = keyvals,
                              !.out = Derived(WithFields(heap, ctx, keyvals))]

\* WithField(ctx, key, value), by such a program.
WithFieldObserved(ctx, key, value) ==
    /\ Derive(WithField(heap, ctx, key, value))
    /\ last' = [NoCall EXCEPT !.op = "WithField", !.ret = "ctx",
                              !.in = ctx, !.args = <<AnyStr(key), value>>,
                              !.out = Derived(WithField(heap, ctx, key, value))]

\* WithTracing(ctx), by a program that keeps what it passed and what it got
\* back.
WithTracingObserved(ctx) ==
    /\ Derive(WithTracing(heap, ctx))
    /\ last' = [NoCall EXCEPT !.op = "WithTracing", !.ret = "ctx", !.in = ctx,
                              !.out = Derived(WithTracing(heap, ctx))]

\* ctx, span := tracer.Start(ctx, name)
StartSpan(ctx, sp) ==
    /\ Hold(ContextWithSpan(ctx, sp), heap)
    /\ last' = [NoCall EXCEPT !.op = "Start", !.ret = "ctx", !.in = ctx,
                              !.out = ContextWithSpan(ctx, sp)]
    /\ UNCHANGED <<globalLogger, configureZerolog, upperLevels, handles, mu,
                   heap, sinks, procs>>

(***************************************************************************)
(* SpecFields: a program that derives carriers with WithFields and         *)
(* WithField.                                                              *)
(***************************************************************************)
\* The pairs of the batches: two keys with two values each, and a pair
\* with the empty key and one with a key that is not a string.
FieldValues == {AnyInt(1), AnyInt(2)}
FieldPairs ==
    {<<AnyStr(k), v>> : k \in {"a", "b"}, v \in FieldValues}
        \cup {<<AnyStr(""), AnyInt(1)>>, <<AnyInt(7), AnyInt(1)>>}

\* The batches: up to two pairs, and up to one pair followed by an unpaired
\* key.
PairBatches == {<<>>} \cup FieldPairs
KeyVals ==
    PairBatches \cup {p \o q : p \in FieldPairs, q \in FieldPairs}
                \cup {Append(b, AnyStr("b")) : b \in PairBatches}

WithFieldsStep == \E c \in ctxs, b \in KeyVals : WithFieldsCall(c, b)

WithFieldStep ==
    \E c \in ctxs, k \in {"a", "b", ""}, v \in FieldValues :
        WithFieldCall(c, k, v)

NextFields ==
    \/ WithFieldsStep
    \/ WithFieldStep

SpecFields == Init /\ [][NextFields]_vars

(***************************************************************************)
(* SpecWrite: a sequential program that initializes the logger, changes    *)
(* and reads the level and writes at every severity in every style.        *)
(***************************************************************************)
\* The level texts given to New and to SetLogLevel.
NewTexts == {"debug", "Error", "bogus"}
SetTexts == {"", "WARN", "disabled", "verbose"}

\* The message arguments of a write, and the format of the f style.
Args == <<AnyStr("m")>>
Format == <<"%v">>

NewStep == \E c \in ctxs, t \in NewTexts : New(c, t, <<1>>)

DispatchStep ==
    \E c \in ctxs, sev \in Severities, st \in Styles :
        Dispatch(c, sev, st, IF st = "f" THEN Format ELSE <<>>, Args)

SetLogLevelStep == \E c \in ctxs, t \in SetTexts : SetLogLevel(c, t)

GetLogLevelStep == \E c \in ctxs : GetLogLevel(c)

NextWrite ==
    \/ NewStep
    \/ DispatchStep
    \/ SetLogLevelStep
    \/ GetLogLevelStep

SpecWrite == Init /\ [][NextWrite]_vars

(***************************************************************************)
(* SpecGlobal: a sequential program that initializes and resets the        *)
(* process-wide logger and writes through the carriers it holds.           *)
(***************************************************************************)
GlobalTexts == {"warn", "Error", "bogus"}
GlobalWriters == {<<1>>, <<2>>}
GlobalSeverities == {InfoLevel, ErrorLevel}

NewGlobalStep ==
    \E c \in ctxs, t \in GlobalTexts, w \in GlobalWriters : New(c, t, w)

DispatchGlobalStep ==
    \E c \in ctxs, sev \in GlobalSeverities : Dispatch(c, sev, "args", <<>>, Args)

NextGlobal ==
    \/ NewGlobalStep
    \/ Reset
    \/ DispatchGlobalStep

SpecGlobal == Init /\ [][NextGlobal]_vars

(***************************************************************************)
(* SpecNew: goroutines that call New concurrently, each call taken one     *)
(* statement at a time.  There is no Reset.                                *)
(***************************************************************************)
RaceTexts == {"debug", "Error", "bogus"}
RaceWriters == {<<1>>, <<2>>}

\* A wrong Once: f runs again after it has completed.
OnceRunsAgain(once) == once # "running"

\* sync.Once.Do runs f when no call of Do has run it yet.
OnceRuns(once) == once = "fresh"

\* A wrong load: a goroutine that has observed the handle may load nil again.
LoadGlobalIncoherent(p) == {globalLogger, 0}

\* The values a load of globalLogger can give goroutine p.  The load at the
\* top of New is not ordered with the store inside configureZerolog.Do: a
\* goroutine that has not yet observed the handle may still load nil.
LoadGlobal(p) ==
    {globalLogger} \cup (IF procs[p].seen = 0 THEN {0} ELSE {})

\* The goroutine returns from its call.
Returned(p, g) == [procs EXCEPT ![p] = [Idle EXCEPT !.seen = g]]

\* New is called: a nil ctx is replaced by context.Background().
NewCall(p, ctx, level, writers) ==
    /\ procs[p].pc = "idle"
    /\ procs' = [procs EXCEPT ![p].pc = "new201", ![p].ctx = OrBackground(ctx),
                              ![p].text = level, ![p].w = writers]
    /\ UNCHANGED <<globalLogger, configureZerolog, upperLevels, handles, mu,
                   heap, ctxs, snap, sinks, last>>

\* if globalLogger != nil { return context.WithValue(ctx, loggerKey, ...), nil }
NewLoad(p) ==
    /\ procs[p].pc = "new201"
    /\ \E g \in LoadGlobal(p) :
          IF g # 0
          THEN /\ Hold(WithLoggerValue(procs[p].ctx, g), heap)
               /\ last' = [NoCall EXCEPT
                              !.op = "New", !.text = procs[p].text,
                              !.attached = loggerFromContextValue(procs[p].ctx),
                              !.out = WithLoggerValue(procs[p].ctx, g),
                              !.ret = "ok", !.h = g]
               /\ procs' = Returned(p, g)
          ELSE /\ procs' = [procs EXCEPT ![p].pc = "new205"]
               /\ UNCHANGED <<ctxs, snap, last>>
    /\ UNCHANGED <<globalLogger, configureZerolog, upperLevels, handles, mu,
                   heap, sinks>>

\* lvl, err := parseLevel(level); writer := selectWriter(writers...)
NewParse(p) ==
    LET r == parseLevel(procs[p].text)
    IN /\ procs[p].pc = "new205"
       /\ IF r.err
          THEN /\ Hold(procs[p].ctx, heap)
               /\ last' = [NoCall EXCEPT
                              !.op = "New", !.text = procs[p].text,
                              !.attached = loggerFromContextValue(procs[p].ctx),
                              !.out = procs[p].ctx,
                              !.ret = "invalid log level",
                              !.str = InvalidLevelMessage(procs[p].text)]
               /\ procs' = Returned(p, procs[p].seen)
          ELSE /\ procs' = [procs EXCEPT ![p].pc = "new212", ![p].lvl = r.lvl,
                                        ![p].w = selectWriter(procs[p].w)]
               /\ UNCHANGED <<ctxs, snap, last>>
       /\ UNCHANGED <<globalLogger, configureZerolog, upperLevels, handles, mu,
                      heap, sinks>>

\* configureZerolog.Do(f): the goroutine runs f, or waits for the call that
\* is running it and goes on.
OnceDo(p) ==
    /\ procs[p].pc = "new212"
    /\ configureZerolog # "running"
    /\ IF OnceRuns(configureZerolog)
       THEN /\ configureZerolog' = "running"
            /\ procs' = [procs EXCEPT ![p].pc = "new213"]
       ELSE /\ configureZerolog' = configureZerolog
            /\ procs' = [procs EXCEPT ![p].pc = "new236"]
    /\ UNCHANGED <<globalLogger, upperLevels, handles, mu, heap, ctxs, snap,
                   sinks, last>>

\* f: zerolog is configured, the handle constructed and stored.
OnceF(p) ==
    /\ procs[p].pc = "new213"
    /\ Len(handles) < MaxHandles
    /\ upperLevels' = TRUE
    /\ handles' = Append(handles, NewZeroLogger(procs[p].lvl, procs[p].w))
    /\ mu' = Append(mu, Unlocked)
    /\ globalLogger' = Len(handles) + 1
    /\ configureZerolog' = "done"
    /\ procs' = [procs EXCEPT ![p].pc = "new236"]
    /\ UNCHANGED <<heap, ctxs, snap, sinks, last>>

\* if globalLogger == nil { return ctx, error }; return the carrier with the
\* handle attached.
NewReturn(p) ==
    LET call == [NoCall EXCEPT
                    !.op = "New", !.text = procs[p].text,
                    !.attached = loggerFromContextValue(procs[p].ctx)]
    IN /\ procs[p].pc = "new236"
       /\ IF globalLogger = 0
          THEN /\ Hold(procs[p].ctx, heap)
               /\ last' = [call EXCEPT !.out = procs[p].ctx,
                                       !.ret = "logger not initialized"]
          ELSE /\ Hold(WithLoggerValue(procs[p].ctx, globalLogger), heap)
               /\ last' = [call EXCEPT
                              !.out = WithLoggerValue(procs[p].ctx, globalLogger),
                              !.ret = "ok", !.h = globalLogger]
       /\ procs' = Returned(p, globalLogger)
       /\ UNCHANGED <<globalLogger, configureZerolog, upperLevels, handles, mu,
                      heap, sinks>>

NewCallStep ==
    \E p \in Procs, c \in ctxs, t \in RaceTexts, w \in RaceWriters :
        NewCall(p, c, t, w)

NextNew ==
    \/ NewCallStep
    \/ \E p \in Procs : NewLoad(p)
    \/ \E p \in Procs : NewParse(p)
    \/ \E p \in Procs : OnceDo(p)
    \/ \E p \in Procs : OnceF(p)
    \/ \E p \in Procs : NewReturn(p)

SpecNew == Init /\ [][NextNew]_vars

(***************************************************************************)
(* SpecMu: goroutines that call SetLogLevel, GetLogLevel and Info on one   *)
(* handle concurrently, each call taken one statement at a time.           *)
(***************************************************************************)
MuNewTexts == {"Error"}
MuSetTexts == {"debug", "WARN", "verbose"}
MuSeverities == {WarnLevel}

\* A wrong Lock: it does not wait for the readers.
CanLockDespiteReaders(m) == m.w = 0

\* mu.Lock() returns when no goroutine holds the mutex.
CanLock(m) == m.w = 0 /\ m.r = {}

\* A wrong RLock: it does not wait for the writer.
CanRLockDespiteWriter(m) == m.w \in {0} \cup Procs

\* mu.RLock() returns when no goroutine holds the mutex for writing.
CanRLock(m) == m.w = 0

\* The handles the goroutines act on: those attached to the carriers held.
Attached == {loggerFromContextValue(c) : c \in ctxs} \ {0}

\* The handle is constructed by New.
MuNew ==
    /\ handles = <<>>
    /\ \E t \in MuNewTexts : New(Background, t, <<1>>)

\* ZeroLogger.SetLogLevel is called: the level text is parsed.
SetCall(p, h, level) ==
    LET r == parseLevel(level)
    IN /\ procs[p].pc = "idle"
       /\ IF r.err
          THEN /\ last' = [NoCall EXCEPT !.op = "ZeroLogger.SetLogLevel",
                                         !.text = level, !.h = h,
                                         !.ret = "error"]
               /\ procs' = procs
          ELSE /\ procs' = [procs EXCEPT ![p].pc = "set372", ![p].h = h,
                                        ![p].lvl = r.lvl]
               /\ last' = last
       /\ UNCHANGED <<globalLogger, configureZerolog, upperLevels, handles, mu,
                      heap, ctxs, snap, sinks>>

\* l.mu.Lock()
SetLock(p) ==
    /\ procs[p].pc = "set372"
    /\ CanLock(mu[procs[p].h])
    /\ mu' = [mu EXCEPT ![procs[p].h].w = p]
    /\ procs' = [procs EXCEPT ![p].pc = "set375"]
    /\ UNCHANGED <<globalLogger, configureZerolog, upperLevels, handles, heap,
                   ctxs, snap, sinks, last>>

\* l.level = lvl
SetLevel(p) ==
    /\ procs[p].pc = "set375"
    /\ handles' = [handles EXCEPT ![procs[p].h].level = procs[p].lvl]
    /\ procs' = [procs EXCEPT ![p].pc = "set376"]
    /\ UNCHANGED <<globalLogger, configureZerolog, upperLevels, mu, heap, ctxs,
                   snap, sinks, last>>

\* l.logger = l.logger.Level(lvl)
SetLogger(p) ==
    /\ procs[p].pc = "set376"
    /\ handles' = [handles EXCEPT ![procs[p].h].logger.level = procs[p].lvl]
    /\ procs' = [procs EXCEPT ![p].pc = "set378"]
    /\ UNCHANGED <<globalLogger, configureZerolog, upperLevels, mu, heap, ctxs,
                   snap, sinks, last>>

\* return nil, and the deferred l.mu.Unlock()
SetUnlock(p) ==
    /\ procs[p].pc = "set378"
    /\ mu' = [mu EXCEPT ![procs[p].h].w = 0]
    /\ last' = [NoCall EXCEPT !.op = "ZeroLogger.SetLogLevel",
                              !.h = procs[p].h, !.ret = "nil",
                              !.str = LevelString(procs[p].lvl)]
    /\ procs' = Returned(p, procs[p].seen)
    /\ UNCHANGED <<globalLogger, configureZerolog, upperLevels, handles, heap,
                   ctxs, snap, sinks>>

\* ZeroLogger.GetLogLevel is called: l.mu.RLock()
GetRLock(p, h) ==
    /\ procs[p].pc = "idle"
    /\ CanRLock(mu[h])
    /\ mu' = [mu EXCEPT ![h].r = @ \cup {p}]
    /\ procs' = [procs EXCEPT ![p].pc = "get383", ![p].h = h]
    /\ UNCHANGED <<globalLogger, configureZerolog, upperLevels, handles, heap,
                   ctxs, snap, sinks, last>>

\* lvl := l.level
GetLoad(p) ==
    /\ procs[p].pc = "get383"
    /\ procs' = [procs EXCEPT ![p].pc = "get384",
                              ![p].lvl = handles[procs[p].h].level]
    /\ UNCHANGED <<globalLogger, configureZerolog, upperLevels, handles, mu,
                   heap, ctxs, snap, sinks, last>>

\* l.mu.RUnlock(); return lvl.String()
GetRUnlock(p) ==
    /\ procs[p].pc = "get384"
    /\ mu' = [mu EXCEPT ![procs[p].h].r = @ \ {p}]
    /\ last' = [NoCall EXCEPT !.op = "ZeroLogger.GetLogLevel",
                              !.h = procs[p].h, !.ret = "string",
                              !.str = LevelString(procs[p].lvl)]
    /\ procs' = Returned(p, procs[p].seen)
    /\ UNCHANGED <<globalLogger, configureZerolog, upperLevels, handles, heap,
                   ctxs, snap, sinks>>

\* A write of the handle is called, which calls writeArgs: l.mu.RLock()
WriteRLock(p, h, sev) ==
    /\ procs[p].pc = "idle"
    /\ \A k \in Sinks : Len(sinks[k]) < MaxRecords
    /\ CanRLock(mu[h])
    /\ mu' = [mu EXCEPT ![h].r = @ \cup {p}]
    /\ procs' = [procs EXCEPT ![p].pc = "write390", ![p].h = h, ![p].sev = sev]
    /\ UNCHANGED <<globalLogger, configureZerolog, upperLevels, handles, heap,
                   ctxs, snap, sinks, last>>

\* logger := l.logger
WriteLoad(p) ==
    /\ procs[p].pc = "write390"
    /\ procs' = [procs EXCEPT ![p].pc = "write391",
                              ![p].obs = handles[procs[p].h].logger]
    /\ UNCHANGED <<globalLogger, configureZerolog, upperLevels, handles, mu,
                   heap, ctxs, snap, sinks, last>>

\* l.mu.RUnlock()
WriteRUnlock(p) ==
    /\ procs[p].pc = "write391"
    /\ mu' = [mu EXCEPT ![procs[p].h].r = @ \ {p}]
    /\ procs' = [procs EXCEPT ![p].pc = "write393"]
    /\ UNCHANGED <<globalLogger, configureZerolog, upperLevels, handles, heap,
                   ctxs, snap, sinks, last>>

\* event := logger.WithLevel(level); if event == nil { return };
\* event.Msgf("%v", args[0])
WriteEvent(p) ==
    LET logger == procs[p].obs
    IN /\ procs[p].pc = "write393"
       /\ sinks' = IF ~Should(logger, procs[p].sev) THEN sinks
                   ELSE WriteAll(sinks, logger.w,
                                 Record(procs[p].sev, ArgsMessage(Args), <<>>))
       /\ last' = [NoCall EXCEPT !.op = "ZeroLogger.write", !.h = procs[p].h,
                                 !.sev = procs[p].sev, !.style = "args",
                                 !.ret = "void", !.gate = logger.level]
       /\ procs' = Returned(p, procs[p].seen)
       /\ UNCHANGED <<globalLogger, configureZerolog, upperLevels, handles, mu,
                      heap, ctxs, snap>>

NextMu ==
    \/ MuNew
    \/ \E p \in Procs, h \in Attached, t \in MuSetTexts : SetCall(p, h, t)
    \/ \E p \in Procs : SetLock(p)
    \/ \E p \in Procs : SetLevel(p)
    \/ \E p \in Procs : SetLogger(p)
    \/ \E p \in Procs : SetUnlock(p)
    \/ \E p \in Procs, h \in Attached : GetRLock(p, h)
    \/ \E p \in Procs : GetLoad(p)
    \/ \E p \in Procs : GetRUnlock(p)
    \/ \E p \in Procs, h \in Attached, sev \in MuSeverities : WriteRLock(p, h, sev)
    \/ \E p \in Procs : WriteLoad(p)
    \/ \E p \in Procs : WriteRUnlock(p)
    \/ \E p \in Procs : WriteEvent(p)

SpecMu == Init /\ [][NextMu]_vars

(***************************************************************************)
(* SpecResolve: a sequential program that initializes and resets the       *)
(* process-wide logger, so that carriers attached to an earlier handle     *)
(* outlive it, and sets and reads the level and writes through the         *)
(* carriers it holds.                                                      *)
(***************************************************************************)
ResolveNewTexts == {"warn"}
ResolveSetTexts == {"Error"}
ResolveSeverities == {ErrorLevel}

NewResolveStep ==
    \E c \in ctxs, t \in ResolveNewTexts, w \in GlobalWriters : New(c, t, w)

DispatchResolveStep ==
    \E c \in ctxs, sev \in ResolveSeverities :
        Dispatch(c, sev, "args", <<>>, Args)

SetLogLevelResolveStep ==
    \E c \in ctxs, t \in ResolveSetTexts : SetLogLevel(c, t)

NextResolve ==
    \/ NewResolveStep
    \/ Reset
    \/ DispatchResolveStep
    \/ SetLogLevelResolveStep
    \/ GetLogLevelStep

SpecResolve == Init /\ [][NextResolve]_vars

(***************************************************************************)
(* SpecRecord: a sequential program that initializes the logger, derives   *)
(* carriers with fields from the carriers it holds, with and without the   *)
(* handle attached, and writes through them.                               *)
(***************************************************************************)
RecordBatches ==
    {<<AnyStr("a"), AnyInt(1)>>,
     <<AnyStr("a"), AnyInt(1), AnyStr("a"), AnyInt(2)>>,
     <<AnyStr("b"), AnyInt(2), AnyStr("a"), AnyInt(1)>>}

NewRecordStep ==
    /\ globalLogger = 0
    /\ New(Background, "debug", <<1>>)

WithFieldsRecordStep ==
    \E c \in ctxs, b \in RecordBatches : WithFieldsCall(c, b)

DispatchRecordStep ==
    \E c \in ctxs, st \in Styles :
        Dispatch(c, InfoLevel, st, IF st = "f" THEN Format ELSE <<>>, Args)

NextRecord ==
    \/ NewRecordStep
    \/ WithFieldsRecordStep
    \/ DispatchRecordStep

SpecRecord == Init /\ [][NextRecord]_vars

(***************************************************************************)
(* SpecBatch: a program that derives carriers from batches of every shape  *)
(* and keeps, for its last call, what it passed and what it got back.      *)
(***************************************************************************)
K1 == AnyStr("k1")
K2 == AnyStr("k2")
V1 == AnyStr("v1")
V2 == AnyStr("v2")
EmptyKey == AnyStr("")
IntKey == AnyInt(7)

\* The empty batch, an unpaired key alone, pairs followed by an unpaired key,
\* pairs with an empty or non-string key alone and among valid pairs.
BatchKeyVals ==
    {<<>>, <<K2>>, <<K1, V1>>, <<K2, V2>>, <<K1, V1, K2>>, <<K1, V2, K1>>,
     <<EmptyKey, V1>>, <<IntKey, V1>>, <<EmptyKey, V1, IntKey, V2>>,
     <<EmptyKey, V1, K1, V1>>, <<K1, V1, IntKey, V1, K2, V2>>,
     <<IntKey, V1, K2>>}

WithFieldsBatchStep ==
    \E c \in ctxs, b \in BatchKeyVals : WithFieldsObserved(c, b)

WithFieldBatchStep ==
    \E c \in ctxs, k \in {"", "k2"} : WithFieldObserved(c, k, V2)

NextBatch ==
    \/ WithFieldsBatchStep
    \/ WithFieldBatchStep

SpecBatch == Init /\ [][NextBatch]_vars

(***************************************************************************)
(* SpecFanout: a sequential program that initializes the logger with two   *)
(* writers, sets the level and writes at every severity in every style     *)
(* through the carriers it holds, with and without the handle attached.    *)
(***************************************************************************)
FanoutTexts == {"debug", "Error"}
FanoutSetTexts == {"WARN", "fatal"}
FanoutWriters == {<<1, 2>>}

NewFanoutStep ==
    \E c \in ctxs, t \in FanoutTexts, w \in FanoutWriters : New(c, t, w)

SetLogLevelFanoutStep ==
    \E c \in ctxs, t \in FanoutSetTexts : SetLogLevel(c, t)

NextFanout ==
    \/ NewFanoutStep
    \/ DispatchStep
    \/ SetLogLevelFanoutStep

SpecFanout == Init /\ [][NextFanout]_vars

(***************************************************************************)
(* SpecTrace: a sequential program that initializes the logger, starts     *)
(* spans on the carriers it holds, folds them in with WithTracing, adds a  *)
(* field and writes through the carriers.                                  *)
(***************************************************************************)
RecordingSpan == [present |-> TRUE, recording |-> TRUE, trace |-> "t1", span |-> "s1"]
IdleSpan == [present |-> TRUE, recording |-> FALSE, trace |-> "t2", span |-> "s2"]
TraceSpans == {RecordingSpan, IdleSpan}

NewTraceStep ==
    /\ globalLogger = 0
    /\ \E c \in ctxs : New(c, "info", <<1>>)

StartSpanStep == \E c \in ctxs \ {NilCtx}, sp \in TraceSpans : StartSpan(c, sp)

WithTracingStep == \E c \in ctxs : WithTracingObserved(c)

WithFieldTraceStep == \E c \in ctxs : WithFieldCall(c, "a", AnyInt(1))

DispatchTraceStep ==
    \E c \in ctxs, st \in Styles :
        Dispatch(c, InfoLevel, st, IF st = "f" THEN Format ELSE <<>>, Args)

NextTrace ==
    \/ NewTraceStep
    \/ StartSpanStep
    \/ WithTracingStep
    \/ WithFieldTraceStep
    \/ DispatchTraceStep

SpecTrace == Init /\ [][NextTrace]_vars

(***************************************************************************)
(* SpecStyle: a sequential program that initializes the logger and writes, *)
(* in every style, messages of two arguments.                              *)
(***************************************************************************)
StyleArgs ==
    {<<AnyStr("a"), AnyStr("b")>>, <<AnyInt(1), AnyInt(2)>>,
     <<AnyStr("a"), AnyInt(1)>>}
StyleFormat == <<"%v", "-", "%v">>
StyleSeverities == {InfoLevel, ErrorLevel}

NewStyleStep == \E c \in ctxs, t \in {"info", "Error"} : New(c, t, <<1>>)

DispatchStyleStep ==
    \E c \in ctxs, sev \in StyleSeverities, st \in Styles, a \in StyleArgs :
        Dispatch(c, sev, st, IF st = "f" THEN StyleFormat ELSE <<>>, a)

NextStyle ==
    \/ NewStyleStep
    \/ DispatchStyleStep

SpecStyle == Init /\ [][NextStyle]_vars

(***************************************************************************)
(* SpecSlots: a sequential program that initializes and resets the logger  *)
(* from the carriers it holds, with and without fields, and derives        *)
(* carriers with fields from them, with and without a handle.              *)
(***************************************************************************)
SlotsTexts == {"info", "bogus"}
SlotsBatches == {<<K1, V1>>, <<K2, V2, K1, V2>>, <<EmptyKey, V1>>}

NewSlotsStep == \E c \in ctxs, t \in SlotsTexts : New(c, t, <<1>>)

WithFieldsSlotsStep ==
    \E c \in ctxs, b \in SlotsBatches : WithFieldsObserved(c, b)

WithFieldSlotsStep == \E c \in ctxs : WithFieldObserved(c, "k2", V1)

NextSlots ==
    \/ NewSlotsStep
    \/ Reset
    \/ WithFieldsSlotsStep
    \/ WithFieldSlotsStep

SpecSlots == Init /\ [][NextSlots]_vars

(***************************************************************************)
(* SpecFallback: goroutines that dispatch through carriers, withLogger     *)
(* taken one statement at a time, while the program calls New and Reset.   *)
(***************************************************************************)
FallbackTexts == {"warn"}
FallbackSeverities == {ErrorLevel}

\* A write is dispatched: a nil ctx is replaced by context.Background().
WithLoggerCall(p, ctx, sev) ==
    /\ procs[p].pc = "idle"
    /\ \A s \in Sinks : Len(sinks[s]) < MaxRecords
    /\ procs' = [procs EXCEPT ![p].pc = "wl99", ![p].ctx = OrBackground(ctx),
                              ![p].sev = sev, ![p].raced = FALSE]
    /\ UNCHANGED <<globalLogger, configureZerolog, upperLevels, handles, mu,
                   heap, ctxs, snap, sinks, last>>

\* if logger := loggerFromContextValue(ctx); logger != nil { fn(logger, ctx); return }
WithLoggerAttached(p) ==
    LET l == loggerFromContextValue(procs[p].ctx)
    IN /\ procs[p].pc = "wl99"
       /\ IF l # 0
          THEN /\ sinks' = HandleWrite(sinks, l, procs[p].ctx, procs[p].sev,
                                       "args", <<>>, Args)
               /\ last' = [NoCall EXCEPT !.op = "Dispatch", !.sev = procs[p].sev,
                                         !.attached = l, !.style = "args",
                                         !.ret = "void", !.h = l]
               /\ procs' = Returned(p, procs[p].seen)
          ELSE /\ procs' = [procs EXCEPT ![p].pc = "wl103"]
               /\ UNCHANGED <<sinks, last>>
       /\ UNCHANGED <<globalLogger, configureZerolog, upperLevels, handles, mu,
                      heap, ctxs, snap>>

\* if globalLogger != nil { ... }: the first load of globalLogger.
WithLoggerCheck(p) ==
    /\ procs[p].pc = "wl103"
    /\ \E g \in LoadGlobal(p) :
          IF g = 0
          THEN /\ last' = [NoCall EXCEPT !.op = "Dispatch", !.sev = procs[p].sev,
                                         !.style = "args", !.ret = "void"]
               /\ procs' = Returned(p, procs[p].seen)
          ELSE /\ procs' = [procs EXCEPT ![p].pc = "wl104", ![p].seen = g]
               /\ last' = last
    /\ UNCHANGED <<globalLogger, configureZerolog, upperLevels, handles, mu,
                   heap, ctxs, snap, sinks>>

\* globalLogger.logMissingLoggerWarning(): globalLogger is loaded again, and
\* the method panics on a nil handle.
WithLoggerWarn(p) ==
    /\ procs[p].pc = "wl104"
    /\ \E g \in LoadGlobal(p) :
          IF g = 0
          THEN /\ last' = [NoCall EXCEPT !.op = "Dispatch", !.sev = procs[p].sev,
                                         !.style = "args", !.ret = "panic"]
               /\ procs' = Returned(p, procs[p].seen)
               /\ sinks' = sinks
          ELSE /\ sinks' = logMissingLoggerWarning(sinks, g)
               /\ procs' = [procs EXCEPT ![p].pc = "wl107", ![p].h = g]
               /\ last' = last
    /\ UNCHANGED <<globalLogger, configureZerolog, upperLevels, handles, mu,
                   heap, ctxs, snap>>

\* ctx = context.WithValue(ctx, loggerKey, globalLogger)
WithLoggerAttach(p) ==
    /\ procs[p].pc = "wl107"
    /\ \E g \in LoadGlobal(p) :
          procs' = [procs EXCEPT ![p].pc = "wl108",
                                 ![p].ctx = WithLoggerValue(procs[p].ctx, g)]
    /\ UNCHANGED <<globalLogger, configureZerolog, upperLevels, handles, mu,
                   heap, ctxs, snap, sinks, last>>

\* fn(globalLogger, ctx): globalLogger is loaded once more; the write panics
\* on a nil handle.
WithLoggerFn(p) ==
    /\ procs[p].pc = "wl108"
    /\ \E g \in LoadGlobal(p) :
          /\ sinks' = IF g = 0 THEN sinks
                      ELSE HandleWrite(sinks, g, procs[p].ctx, procs[p].sev,
                                       "args", <<>>, Args)
          /\ last' = [NoCall EXCEPT !.op = "Dispatch", !.sev = procs[p].sev,
                                    !.style = "args", !.h = g,
                                    !.ret = IF g = 0 THEN "panic" ELSE "void"]
          /\ procs' = Returned(p, procs[p].seen)
    /\ UNCHANGED <<globalLogger, configureZerolog, upperLevels, handles, mu,
                   heap, ctxs, snap>>

\* Reset, called while goroutines may be inside a dispatch.
ResetDuring ==
    /\ globalLogger' = 0
    /\ configureZerolog' = "fresh"
    /\ procs' = [p \in Procs |->
                    IF procs[p].pc = "idle" THEN procs[p]
                    ELSE [procs[p] EXCEPT !.raced = TRUE]]
    /\ last' = [NoCall EXCEPT !.op = "Reset", !.ret = "void"]
    /\ UNCHANGED <<upperLevels, handles, mu, heap, ctxs, snap, sinks>>

NewFallbackStep == \E t \in FallbackTexts : New(Background, t, <<1>>)

NextFallback ==
    \/ NewFallbackStep
    \/ ResetDuring
    \/ \E p \in Procs, c \in ctxs, sev \in FallbackSeverities :
          WithLoggerCall(p, c, sev)
    \/ \E p \in Procs : WithLoggerAttached(p)
    \/ \E p \in Procs : WithLoggerCheck(p)
    \/ \E p \in Procs : WithLoggerWarn(p)
    \/ \E p \in Procs : WithLoggerAttach(p)
    \/ \E p \in Procs : WithLoggerFn(p)

SpecFallback == Init /\ [][NextFallback]_vars

(***************************************************************************)
(* C1.  Accumulation purity: FieldsFromContext of every carrier the        *)
(* program holds is what it was when the carrier was obtained, whatever    *)
(* carriers were derived since.                                            *)
(***************************************************************************)
C1_AccumulationPurity ==
    \A c \in ctxs : FieldsFromContext(heap, c) = snap[c]

\* A carrier with fields and a carrier derived from it are both held.
C1_Witness ==
    /\ last.op = "WithFields"
    /\ \E c \in ctxs, d \in ctxs :
          /\ c.fields.len > 0
          /\ d.fields.len > c.fields.len
          /\ d.fields.arr # c.fields.arr
          /\ \A i \in 1..c.fields.len :
                Elems(heap, d.fields)[i] = Elems(heap, c.fields)[i]
          /\ snap[c].present
          /\ FieldsFromContext(heap, d) # FieldsFromContext(heap, c)

(***************************************************************************)
(* What the claims below speak of.                                         *)
(***************************************************************************)
\* The records a step appended to sink k.
Written(k) == SubSeq(sinks'[k], Len(sinks[k]) + 1, Len(sinks'[k]))

\* A step only appends to sink k.
Extends(k) ==
    /\ Len(sinks'[k]) >= Len(sinks[k])
    /\ SubSeq(sinks'[k], 1, Len(sinks[k])) = sinks[k]

\* The upper-cased name of a severity, as a log consumer reads it.
SeverityTag(sev) ==
    CASE sev = DebugLevel -> "DEBUG"
      [] sev = InfoLevel -> "INFO"
      [] sev = WarnLevel -> "WARN"
      [] sev = ErrorLevel -> "ERROR"
      [] sev = FatalLevel -> "FATAL"

\* The sinks a handle writes to.
SinksOf(h) == {handles[h].logger.w[i] : i \in DOMAIN handles[h].logger.w}

\* The record of the requested write, and the missing-logger warning.
RequestedRecord(sev) == [level |-> SeverityTag(sev), message |-> "m", fields |-> <<>>]
WarningRecord == [level |-> "WARN", message |-> MissingLoggerMessage, fields |-> <<>>]

\* The level texts that name a level, with the lower-case name of the level.
LevelNameOf(text) ==
    CASE text = "" -> "info"
      [] text \in {"trace"} -> "trace"
      [] text \in {"debug", "Debug"} -> "debug"
      [] text \in {"info", "INFO"} -> "info"
      [] text \in {"warn", "WARN"} -> "warn"
      [] text \in {"error", "Error"} -> "error"
      [] text \in {"fatal"} -> "fatal"
      [] text \in {"panic"} -> "panic"
      [] text \in {"disabled"} -> "disabled"
      [] OTHER -> "?"

NamesALevel(text) == LevelNameOf(text) # "?"

(***************************************************************************)
(* C2.  Level gating: a write of severity s through a carrier whose handle *)
(* has level L appends exactly one record, tagged with the upper-cased     *)
(* name of s, to the handle's sink when s >= L, and no record when s < L.  *)
(***************************************************************************)
C2_LevelGating ==
    [][(last'.op = "Dispatch" /\ last'.attached # 0) =>
          LET h == last'.attached
              s == last'.sev
          IN \A k \in Sinks :
                /\ Extends(k)
                /\ Written(k) = IF k \in SinksOf(h) /\ s >= handles[h].level
                                THEN <<RequestedRecord(s)>>
                                ELSE <<>>]_vars

\* An error write through a handle at level error has reached the sink.
C2_Witness ==
    /\ last.op = "Dispatch"
    /\ last.attached # 0
    /\ last.sev = ErrorLevel
    /\ handles[last.attached].level = ErrorLevel
    /\ Len(sinks[1]) > 0
    /\ sinks[1][Len(sinks[1])] = RequestedRecord(ErrorLevel)

\* What a dispatch without an attached handle appended to sink k of the
\* process-wide handle g: the warning if the handle's level lets a warning
\* through, then the requested record if the level lets it through.
FallbackRecords(g, sev) ==
    (IF WarnLevel >= handles[g].level THEN <<WarningRecord>> ELSE <<>>)
        \o (IF sev >= handles[g].level THEN <<RequestedRecord(sev)>> ELSE <<>>)

\* The number of missing-logger warnings in sink k.
Warnings(k) ==
    Cardinality({i \in DOMAIN sinks[k] : sinks[k][i] = WarningRecord})

(***************************************************************************)
(* C3, as stated.  A dispatch through a carrier with no attached handle,   *)
(* while a process-wide handle exists, appends the missing-logger WARN     *)
(* record and right after it the requested record, and nothing else.       *)
(***************************************************************************)
C3_WarningThenRecord ==
    [][(last'.op = "Dispatch" /\ last'.attached = 0 /\ globalLogger # 0) =>
          \A k \in Sinks :
             /\ Extends(k)
             /\ Written(k) = IF k \in SinksOf(globalLogger)
                             THEN <<WarningRecord, RequestedRecord(last'.sev)>>
                             ELSE <<>>]_vars

(***************************************************************************)
(* C3, amended.  Such a dispatch appends, in this order and through the    *)
(* process-wide handle, the WARN record when that handle's level is warn   *)
(* or lower, and the requested record when its severity is at or above     *)
(* the handle's level; it appends nothing else, and the handle it used is  *)
(* the process-wide one.                                                   *)
(***************************************************************************)
C3_WarningOrder ==
    [][(last'.op = "Dispatch" /\ last'.attached = 0 /\ globalLogger # 0) =>
          /\ last'.h = globalLogger
          /\ \A k \in Sinks :
                /\ Extends(k)
                /\ Written(k) = IF k \in SinksOf(globalLogger)
                                THEN FallbackRecords(globalLogger, last'.sev)
                                ELSE <<>>]_vars

\* A fallback dispatch has written the warning and then an error record.
C3_Witness ==
    /\ last.op = "Dispatch"
    /\ last.attached = 0
    /\ last.h # 0
    /\ last.h = globalLogger
    /\ last.sev = ErrorLevel
    /\ \E k \in SinksOf(last.h) :
          /\ Len(sinks[k]) >= 2
          /\ sinks[k][Len(sinks[k]) - 1] = WarningRecord
          /\ sinks[k][Len(sinks[k])] = RequestedRecord(ErrorLevel)

(***************************************************************************)
(* C4, as stated.  After a successful New, whatever dispatches are made    *)
(* through carriers without a logger, the missing-logger warning is        *)
(* written once in total: while only one handle was ever constructed, no   *)
(* sink holds more than one warning.                                       *)
(***************************************************************************)
C4_WarnsOnce ==
    Len(handles) = 1 => \A k \in Sinks : Warnings(k) <= 1

(***************************************************************************)
(* C5.  SetLogLevel on a handle with a text that names a level returns     *)
(* nil and sets the level, and the logger's gate, to that level, so that   *)
(* a GetLogLevel that follows returns the level's lower-case name;         *)
(* with a text that names no level it returns an error and leaves the      *)
(* handle as it was.                                                       *)
(***************************************************************************)
C5_LevelRoundTrip ==
    [][/\ (last'.op = "SetLogLevel" /\ last'.h # 0) =>
             IF NamesALevel(last'.text)
             THEN /\ last'.inner = "nil"
                  /\ LevelString(handles'[last'.h].level) = LevelNameOf(last'.text)
                  /\ handles'[last'.h].logger.level = handles'[last'.h].level
                  /\ \A g \in DOMAIN handles : g # last'.h => handles'[g] = handles[g]
             ELSE /\ last'.inner = "error"
                  /\ handles' = handles
       /\ (/\ last.op = "SetLogLevel"
           /\ last.h # 0
           /\ NamesALevel(last.text)
           /\ last'.op = "GetLogLevel"
           /\ last'.h = last.h) => last'.str = LevelNameOf(last.text)
       /\ (last'.op = "GetLogLevel" /\ last'.h # 0) =>
             last'.str = LevelString(handles[last'.h].level)]_vars

\* SetLogLevel("verbose") has failed on a handle whose level is not the
\* level parseLevel returns beside its error.
C5_Witness ==
    /\ last.op = "SetLogLevel"
    /\ last.text = "verbose"
    /\ last.h # 0
    /\ last.inner = "error"
    /\ handles[last.h].level # InfoLevel
    /\ handles[last.h].logger.level = handles[last.h].level

(***************************************************************************)
(* C6, as stated.  A SetLogLevel that reaches a handle with a text that    *)
(* names no level reports an error to its caller, from the handle's        *)
(* method and from the package-level function alike.                       *)
(***************************************************************************)
C6_ErrorSurfaced ==
    (last.op = "SetLogLevel" /\ last.h # 0 /\ ~NamesALevel(last.text)) =>
        (last.inner = "error" /\ last.ret = "error")

(***************************************************************************)
(* C7.  While a process-wide handle exists, New returns without error a    *)
(* carrier attached to that handle, whatever level text and writers it is  *)
(* given, and constructs nothing: the process-wide handle, every handle's  *)
(* level and writers, and the sinks stay as they were.                     *)
(***************************************************************************)
C7_NewIdempotent ==
    [][(last'.op = "New" /\ globalLogger # 0) =>
          /\ last'.ret = "ok"
          /\ loggerFromContextValue(last'.out) = globalLogger
          /\ globalLogger' = globalLogger
          /\ handles' = handles
          /\ sinks' = sinks]_vars

\* A later New with a text that names no level has returned the handle.
C7_Witness ==
    /\ last.op = "New"
    /\ last.text = "bogus"
    /\ last.ret = "ok"
    /\ globalLogger # 0
    /\ loggerFromContextValue(last.out) = globalLogger
    /\ Len(handles) = 1

(***************************************************************************)
(* C8.  Concurrent New calls construct one handle: at most one handle is   *)
(* ever constructed, and every call given a text that names a level        *)
(* returns without error a carrier attached to the one handle              *)
(* constructed, which is the process-wide handle.                          *)
(***************************************************************************)
C8_SingleConstruction ==
    /\ Len(handles) <= 1
    /\ globalLogger \in {0, 1}
    /\ (globalLogger = 1 <=> Len(handles) = 1)
    /\ (last.op = "New" /\ NamesALevel(last.text)) =>
          /\ last.ret = "ok"
          /\ Len(handles) = 1
          /\ globalLogger = 1
          /\ loggerFromContextValue(last.out) = globalLogger
    /\ \A c \in ctxs : loggerFromContextValue(c) \in {0, globalLogger}

\* A call has returned the handle while the other goroutine, which loaded
\* nil at the top of New, is about to enter configureZerolog.Do.
C8_Witness ==
    /\ last.op = "New"
    /\ last.ret = "ok"
    /\ Len(handles) = 1
    /\ loggerFromContextValue(last.out) = 1
    /\ \E p \in Procs : procs[p].pc = "new212" /\ procs[p].lvl # handles[1].level

\* The names of the levels a handle of SpecMu is given: by New and by the
\* SetLogLevel calls whose text names a level.
GivenLevelNames ==
    {LevelNameOf(t) : t \in {x \in MuNewTexts \cup MuSetTexts : NamesALevel(x)}}

\* The goroutines inside the read-locked section of GetLogLevel or writeArgs
\* on handle h.
Reading(h) ==
    {p \in Procs : procs[p].h = h /\ procs[p].pc \in {"get383", "get384",
                                                      "write390", "write391"}}

(***************************************************************************)
(* C9.  Under concurrent SetLogLevel, GetLogLevel and writes on a handle,  *)
(* every level a GetLogLevel loads or returns and every level a write      *)
(* loads or gates against is the level New gave the handle or one given    *)
(* to a SetLogLevel; and while a goroutine is inside its read-locked       *)
(* section the handle is never half updated: its level and its logger's    *)
(* level agree.                                                            *)
(***************************************************************************)
C9_NoTornLevel ==
    /\ \A p \in Procs :
          /\ procs[p].pc = "get384" =>
                LevelString(procs[p].lvl) \in GivenLevelNames
          /\ procs[p].pc \in {"write391", "write393"} =>
                LevelString(procs[p].obs.level) \in GivenLevelNames
    /\ \A h \in DOMAIN handles :
          Reading(h) # {} =>
             handles[h].level = handles[h].logger.level
    /\ last.op = "ZeroLogger.GetLogLevel" => last.str \in GivenLevelNames
    /\ last.op = "ZeroLogger.write" => LevelString(last.gate) \in GivenLevelNames

\* A write has gated against a level set by SetLogLevel while one goroutine
\* reads the handle and the other waits to set its level again.
C9_Witness ==
    /\ last.op = "ZeroLogger.write"
    /\ last.gate = WarnLevel
    /\ Len(sinks[1]) > 0
    /\ \E p \in Procs, q \in Procs :
          /\ procs[p].pc = "set372"
          /\ procs[p].lvl = DebugLevel
          /\ procs[q].pc = "get384"
          /\ procs[q].lvl = WarnLevel
          /\ q \in mu[procs[q].h].r

\* The carriers held that have no handle attached.
Bare == {c \in ctxs : loggerFromContextValue(OrBackground(c)) = 0}

(***************************************************************************)
(* C10.  While no process-wide handle exists (none was constructed, New    *)
(* failed, or Reset was called), a dispatch of any severity in any style   *)
(* through a carrier with no attached handle writes no record to any       *)
(* sink, uses no handle and returns normally, without a panic.             *)
(***************************************************************************)
C10_SilentDrop ==
    [][globalLogger = 0 =>
          /\ (last'.op = "Dispatch" /\ last'.attached = 0) =>
                /\ sinks' = sinks
                /\ last'.ret = "void"
                /\ last'.h = 0
          /\ \A c \in Bare, sev \in Severities, st \in Styles :
                withLogger(sinks, c, sev, st,
                           IF st = "f" THEN Format ELSE <<>>, Args)
                    = [sinks |-> sinks, ret |-> "void", h |-> 0]]_vars

\* After a Reset, with a handle constructed earlier and records in a sink,
\* a dispatch through a carrier without a handle has been dropped.
C10_Witness ==
    /\ last.op = "Dispatch"
    /\ last.attached = 0
    /\ last.h = 0
    /\ last.ret = "void"
    /\ globalLogger = 0
    /\ Len(handles) > 0
    /\ \E k \in Sinks : sinks[k] # <<>>

\* The handle the resolution order gives for a call whose carrier has the
\* handle a attached (0 when none): the attached one, else the process-wide
\* one, else none.
Resolved(a) == IF a # 0 THEN a ELSE globalLogger

(***************************************************************************)
(* C11.  Resolution order: a package-level SetLogLevel, GetLogLevel or     *)
(* dispatch acts on the handle attached to its carrier when there is one,  *)
(* else on the process-wide handle when there is one, else on nothing:     *)
(* SetLogLevel changes the level of that handle and of no other,           *)
(* GetLogLevel returns that handle's level name or "", a dispatch writes   *)
(* to that handle's sinks alone, and a dispatch through a carrier with a   *)
(* handle attached writes no missing-logger warning.                       *)
(***************************************************************************)
C11_ResolutionOrder ==
    [][LET e == Resolved(last'.attached)
       IN /\ last'.op = "SetLogLevel" =>
                /\ \A g \in DOMAIN handles : g # e => handles'[g] = handles[g]
                /\ DOMAIN handles' = DOMAIN handles
                /\ (e # 0 /\ NamesALevel(last'.text)) =>
                      LevelString(handles'[e].level) = LevelNameOf(last'.text)
          /\ last'.op = "GetLogLevel" =>
                last'.str = IF e = 0 THEN "" ELSE LevelString(handles[e].level)
          /\ last'.op = "Dispatch" =>
                \A k \in Sinks :
                   /\ Extends(k)
                   /\ Written(k) =
                         IF e = 0 \/ k \notin SinksOf(e) THEN <<>>
                         ELSE IF last'.attached = 0
                         THEN FallbackRecords(e, last'.sev)
                         ELSE IF last'.sev >= handles[e].level
                         THEN <<RequestedRecord(last'.sev)>>
                         ELSE <<>>]_vars

\* SetLogLevel through a carrier attached to the first handle has changed
\* that handle's level while a second handle, at another level, is the
\* process-wide one.
C11_Witness ==
    /\ last.op = "SetLogLevel"
    /\ last.attached = 1
    /\ globalLogger = 2
    /\ handles[1].level = ErrorLevel
    /\ handles[2].level = WarnLevel

(***************************************************************************)
(* C12, as stated.  New with a text that names no level, while no          *)
(* process-wide handle exists, returns an error naming the text,           *)
(* constructs no handle, leaves the process-wide handle absent and         *)
(* returns a carrier with no handle attached.                              *)
(***************************************************************************)
C12_FailedNewBareCarrier ==
    [][(last'.op = "New" /\ globalLogger = 0 /\ ~NamesALevel(last'.text)) =>
          /\ last'.ret = "invalid log level"
          /\ handles' = handles
          /\ globalLogger' = 0
          /\ loggerFromContextValue(last'.out) = 0]_vars

(***************************************************************************)
(* C12, amended.  Such a New returns an error naming the text, constructs  *)
(* no handle, leaves the process-wide handle and the one-time guard as     *)
(* they were, writes nothing, and returns the carrier it was given with    *)
(* no handle attached by the call: the carrier has the handle it had       *)
(* before, none for a carrier that had none.                               *)
(***************************************************************************)
C12_FailedNewCreatesNothing ==
    [][(last'.op = "New" /\ globalLogger = 0 /\ ~NamesALevel(last'.text)) =>
          /\ last'.ret = "invalid log level"
          /\ last'.text = "bogus" => last'.str = "invalid log level \"bogus\""
          /\ handles' = handles
          /\ globalLogger' = 0
          /\ configureZerolog' = configureZerolog
          /\ sinks' = sinks
          /\ loggerFromContextValue(last'.out) = last'.attached]_vars

\* After a Reset, New("bogus") through a carrier attached to the earlier
\* handle has failed.
C12_Witness ==
    /\ last.op = "New"
    /\ last.text = "bogus"
    /\ last.ret = "invalid log level"
    /\ last.str = "invalid log level \"bogus\""
    /\ globalLogger = 0
    /\ Len(handles) = 1
    /\ last.attached = 1
    /\ loggerFromContextValue(last.out) = 1

(***************************************************************************)
(* C13.  Reset starts a new generation: Reset leaves no process-wide       *)
(* handle and touches no handle and no sink; the next New with a text      *)
(* that names a level succeeds and constructs a handle that did not exist  *)
(* before, at the level the text names and with the writer it was given,   *)
(* makes it the process-wide handle and returns a carrier attached to it,  *)
(* leaving the earlier handles as they were.                               *)
(***************************************************************************)
C13_ResetNewGeneration ==
    [][/\ last'.op = "Reset" =>
             /\ globalLogger' = 0
             /\ handles' = handles
             /\ sinks' = sinks
       /\ \A c \in ctxs, t \in GlobalTexts, w \in GlobalWriters :
             (/\ globalLogger = 0
              /\ handles # <<>>
              /\ NamesALevel(t)
              /\ New(c, t, w)) =>
                /\ last'.ret = "ok"
                /\ globalLogger' \notin DOMAIN handles
                /\ globalLogger' \in DOMAIN handles'
                /\ \A g \in DOMAIN handles : handles'[g] = handles[g]
                /\ LevelString(handles'[globalLogger'].level) = LevelNameOf(t)
                /\ handles'[globalLogger'].logger.level
                      = handles'[globalLogger'].level
                /\ handles'[globalLogger'].logger.w = w
                /\ loggerFromContextValue(last'.out) = globalLogger'
                /\ sinks' = sinks]_vars

\* A second handle, with another level and another writer than the first,
\* is the process-wide one after a Reset and a New.
C13_Witness ==
    /\ last.op = "New"
    /\ last.ret = "ok"
    /\ globalLogger = 2
    /\ loggerFromContextValue(last.out) = 2
    /\ handles[2].level # handles[1].level
    /\ handles[2].logger.w # handles[1].logger.w

\* The accumulated field list of a carrier, and the positions of its keys.
FieldList(c) == Elems(heap, flattenedFieldsFromContext(c))

KeyPositions(flat) == {i \in 1..Len(flat) : i % 2 = 1 /\ i + 1 <= Len(flat)}

\* The last entry of the list with key k.
LastPosition(flat, k) ==
    CHOOSE i \in KeyPositions(flat) :
        /\ flat[i] = AnyStr(k)
        /\ \A j \in KeyPositions(flat) : flat[j] = AnyStr(k) => j <= i

\* The map that gives every key of the list the value of its last entry.
LastWriteWins(flat) ==
    [k \in {flat[i].s : i \in KeyPositions(flat)} |->
        flat[LastPosition(flat, k) + 1]]

(***************************************************************************)
(* C14.  Last-write-wins on flatten: for every carrier with fields,        *)
(* FieldsFromContext has exactly the keys of the accumulated list, each    *)
(* with the value of the last entry of the list with that key.             *)
(***************************************************************************)
C14_LastWriteWins ==
    \A c \in ctxs :
        FieldList(c) # <<>> =>
            /\ FieldsFromContext(heap, c).present
            /\ FieldsFromContext(heap, c).m = LastWriteWins(FieldList(c))

\* a=2 was added to a carrier holding a=1: the list holds both entries and
\* the map holds exactly a=2.
C14_Witness ==
    \E c \in ctxs, d \in ctxs :
        /\ FieldList(c) = <<AnyStr("a"), AnyInt(1)>>
        /\ FieldList(d) = <<AnyStr("a"), AnyInt(1), AnyStr("a"), AnyInt(2)>>
        /\ DOMAIN FieldsFromContext(heap, d).m = {"a"}
        /\ FieldsFromContext(heap, d).m["a"] = AnyInt(2)
        /\ FieldsFromContext(heap, c).m["a"] = AnyInt(1)

\* The pairs of a batch that are kept, in order: those with a non-empty
\* string key; a last argument without a value is not a pair.
RECURSIVE KeptPairs(_)
KeptPairs(b) ==
    IF Len(b) < 2 THEN <<>>
    ELSE (IF b[1].t = "string" /\ b[1].s # "" THEN <<b[1], b[2]>> ELSE <<>>)
             \o KeptPairs(SubSeq(b, 3, Len(b)))

\* The accumulated field list of the carrier a WithFields call returns.
ResultList(r) == Elems(r.heap, flattenedFieldsFromContext(r.ctx))

\* The batches of even length with at most one pair.
SmallEvenBatches == {b \in KeyVals : Len(b) % 2 = 0 /\ Len(b) <= 2}

(***************************************************************************)
(* C15.  Accumulation order and associativity: the field list of           *)
(* WithFields(C, B) is the list of C followed by the kept pairs of B in    *)
(* their order, and for batches B1 and B2 of even length the list of       *)
(* WithFields(WithFields(C, B1), B2) is the list of                        *)
(* WithFields(C, B1 ++ B2).                                                *)
(***************************************************************************)
C15_AccumulationOrder ==
    \A c \in ctxs :
        /\ \A b \in KeyVals :
              ResultList(WithFields(heap, c, b)) = FieldList(c) \o KeptPairs(b)
        /\ \A b1 \in SmallEvenBatches, b2 \in SmallEvenBatches :
              LET r1 == WithFields(heap, c, b1)
              IN ResultList(WithFields(r1.heap, r1.ctx, b2))
                     = ResultList(WithFields(heap, c, b1 \o b2))

\* A carrier holding b=2 and then a=1 was derived by WithField from a
\* carrier holding b=2.
C15_Witness ==
    /\ last.op = "WithField"
    /\ \E c \in ctxs, d \in ctxs :
          /\ FieldList(c) = <<AnyStr("b"), AnyInt(2)>>
          /\ FieldList(d) = <<AnyStr("b"), AnyInt(2), AnyStr("a"), AnyInt(1)>>
          /\ d.fields.arr # c.fields.arr

\* The records a dispatch through carrier c at a severity that passes the
\* gate appends to the sink of the one handle: the warning, without fields,
\* when c has no handle attached, and then the requested record.
RequestedWritten == Written(1)[Len(Written(1))]

WritesRequested(c) ==
    /\ Len(Written(1)) = (IF loggerFromContextValue(c) = 0 THEN 2 ELSE 1)
    /\ loggerFromContextValue(c) = 0 => Written(1)[1] = WarningRecord
    /\ RequestedWritten.level = "INFO"
    /\ RequestedWritten.message = "m"

\* The map a consumer reads from the fields of a record when a later
\* occurrence of a key replaces an earlier one.
DecodedFields(rec) == LastWriteWins(rec.fields)

(***************************************************************************)
(* C16, as stated.  The record written through carrier C carries as its    *)
(* fields exactly the map FieldsFromContext(C): one entry per key of the   *)
(* map, with the map's value, and no field when C has none.                *)
(***************************************************************************)
C16_RecordCarriesMap ==
    [][\A c \in ctxs, st \in Styles :
          (/\ globalLogger # 0
           /\ Dispatch(c, InfoLevel, st, IF st = "f" THEN Format ELSE <<>>, Args)) =>
             LET fields == FieldsFromContext(heap, c)
                 rec == RequestedWritten
             IN /\ WritesRequested(c)
                /\ Len(rec.fields) = 2 * Cardinality(DOMAIN fields.m)
                /\ \A i \in KeyPositions(rec.fields) :
                      /\ rec.fields[i].s \in DOMAIN fields.m
                      /\ rec.fields[i + 1] = fields.m[rec.fields[i].s]]_vars

(***************************************************************************)
(* C16, amended.  The record written through carrier C carries every       *)
(* entry of C's accumulated field list, in accumulation order, a key       *)
(* added more than once appearing once per entry; read with a later entry  *)
(* replacing an earlier one of the same key, its fields are exactly        *)
(* FieldsFromContext(C); it carries no field when C has none.              *)
(***************************************************************************)
C16_RecordCarriesList ==
    [][\A c \in ctxs, st \in Styles :
          (/\ globalLogger # 0
           /\ Dispatch(c, InfoLevel, st, IF st = "f" THEN Format ELSE <<>>, Args)) =>
             LET fields == FieldsFromContext(heap, c)
                 rec == RequestedWritten
             IN /\ WritesRequested(c)
                /\ rec.fields = FieldList(c)
                /\ DecodedFields(rec) = fields.m
                /\ ~fields.present => rec.fields = <<>>]_vars

\* A record with the two entries a=1 and a=2 is in the sink.
C16_Witness ==
    /\ last.op = "Dispatch"
    /\ Len(sinks[1]) > 0
    /\ sinks[1][Len(sinks[1])] =
          [level |-> "INFO", message |-> "m",
           fields |-> <<AnyStr("a"), AnyInt(1), AnyStr("a"), AnyInt(2)>>]

\* The keys of a field list.
KeysOf(flat) == {flat[i] : i \in KeyPositions(flat)}

(***************************************************************************)
(* C17.  Odd-batch truncation: WithFields with an odd number of key/value  *)
(* arguments returns a carrier, with no error, whose field list is the     *)
(* given carrier's list followed by the kept pairs of the arguments        *)
(* before the last one; the last argument becomes a key of the result's    *)
(* fields only if it already was a key of the given carrier or of one of   *)
(* the pairs.                                                              *)
(***************************************************************************)
C17_OddBatchTruncation ==
    (/\ last.op = "WithFields"
     /\ Len(last.args) % 2 = 1
     /\ last.out \in ctxs) =>
        LET paired == SubSeq(last.args, 1, Len(last.args) - 1)
            final == last.args[Len(last.args)]
        IN /\ last.ret = "ctx"
           /\ FieldList(last.out) = FieldList(last.in) \o KeptPairs(paired)
           /\ final \notin KeysOf(FieldList(last.in)) \cup KeysOf(paired) =>
                 /\ final \notin KeysOf(FieldList(last.out))
                 /\ final.s \notin DOMAIN FieldsFromContext(heap, last.out).m

\* WithFields(C, "k1", "v1", "k2") on a carrier without fields has returned
\* a carrier whose fields are k1=v1 alone.
C17_Witness ==
    /\ last.op = "WithFields"
    /\ last.args = <<K1, V1, K2>>
    /\ FieldList(last.in) = <<>>
    /\ last.out \in ctxs
    /\ FieldList(last.out) = <<K1, V1>>
    /\ DOMAIN FieldsFromContext(heap, last.out).m = {"k1"}
    /\ FieldsFromContext(heap, last.out).m["k1"] = V1

\* The pairs of a batch, without a last argument that has no value.
Pairs(b) == SubSeq(b, 1, Len(b) - (Len(b) % 2))

\* Whether the key at position i of a batch is a non-empty string.
ValidKey(b, i) == b[i].t = "string" /\ b[i].s # ""

(***************************************************************************)
(* C18.  Invalid-key drop: the field list WithFields returns is the given  *)
(* carrier's list followed by exactly the pairs of the batch whose key is  *)
(* a non-empty string, in the order of the batch; and no carrier held      *)
(* ever has an empty or non-string key in its field list.                  *)
(***************************************************************************)
C18_InvalidKeyDrop ==
    /\ \A c \in ctxs :
          \A key \in KeysOf(FieldList(c)) : key.t = "string" /\ key.s # ""
    /\ (last.op = "WithFields" /\ last.out \in ctxs) =>
          LET b == Pairs(last.args)
              kept == {i \in KeyPositions(b) : ValidKey(b, i)}
              old == FieldList(last.in)
              new == FieldList(last.out)
          IN /\ Len(new) = Len(old) + 2 * Cardinality(kept)
             /\ SubSeq(new, 1, Len(old)) = old
             /\ \A i \in kept :
                   LET n == Len(old) + 2 * Cardinality({j \in kept : j < i})
                   IN new[n + 1] = b[i] /\ new[n + 2] = b[i + 1]

\* WithFields(C, "k1", "v1", 7, "v1", "k2", "v2") has returned a carrier
\* whose list ends with k1=v1, k2=v2.
C18_Witness ==
    /\ last.op = "WithFields"
    /\ last.args = <<K1, V1, IntKey, V1, K2, V2>>
    /\ last.out \in ctxs
    /\ FieldList(last.out) = FieldList(last.in) \o <<K1, V1, K2, V2>>

\* The last call was a derivation in which no pair survived: WithFields with
\* no argument, one argument or only invalid keys, or WithField with the
\* empty key.
EmptyAdd(call) ==
    \/ call.op = "WithFields" /\ KeptPairs(call.args) = <<>>
    \/ call.op = "WithField" /\ call.args[1] = EmptyKey

(***************************************************************************)
(* C19, as stated.  A derivation in which no pair survives returns the     *)
(* carrier it was given, so that FieldsFromContext of the result is that   *)
(* of the given carrier.                                                   *)
(***************************************************************************)
C19_EmptyAddSameCarrier ==
    [][EmptyAdd(last') =>
          /\ last'.out = last'.in
          /\ FieldsFromContext(heap', last'.out)
                = FieldsFromContext(heap, last'.in)]_vars

(***************************************************************************)
(* C19, amended.  A derivation in which no pair survives returns the       *)
(* carrier it was given, except that WithFields returns a background       *)
(* carrier when given the nil carrier; the result has the handle and the   *)
(* field storage of the given carrier, FieldsFromContext of the result is  *)
(* that of the given carrier, and no carrier and no storage is added.      *)
(***************************************************************************)
C19_EmptyAddNoOp ==
    [][EmptyAdd(last') =>
          /\ last'.out = IF last'.op = "WithFields" /\ last'.in = NilCtx
                         THEN Background
                         ELSE last'.in
          /\ last'.out.logger = last'.in.logger
          /\ last'.out.fields = last'.in.fields
          /\ FieldsFromContext(heap', last'.out)
                = FieldsFromContext(heap, last'.in)
          /\ heap' = heap
          /\ ctxs' = ctxs]_vars

\* WithFields with an empty key and a non-string key has returned the
\* carrier it was given, which has fields.
C19_Witness ==
    /\ last.op = "WithFields"
    /\ last.args = <<EmptyKey, V1, IntKey, V2>>
    /\ last.out = last.in
    /\ FieldsFromContext(heap, last.out).present
    /\ FieldsFromContext(heap, last.out) = snap[last.in]

(***************************************************************************)
(* C20.  FieldsFromContext returns the nil map for the nil carrier and for *)
(* every carrier to which no fields were attached, and for no carrier held *)
(* does it return an empty map: the result is nil or has at least one key. *)
(***************************************************************************)
C20_AbsentNotEmpty ==
    \A c \in ctxs :
        LET fields == FieldsFromContext(heap, c)
        IN /\ (c.kind = "nil" \/ c.fields = NilSlice) => fields = NilMap
           /\ fields.present => DOMAIN fields.m # {}
           /\ ~fields.present => fields = NilMap /\ FieldList(c) = <<>>

\* A batch of invalid keys has been given to the nil carrier: the result has
\* the nil map, while another carrier held has a map with a key.
C20_Witness ==
    /\ last.op = "WithFields"
    /\ last.in = NilCtx
    /\ last.args = <<EmptyKey, V1, IntKey, V2>>
    /\ FieldsFromContext(heap, last.out) = NilMap
    /\ FieldsFromContext(heap, NilCtx) = NilMap
    /\ \E c \in ctxs : FieldsFromContext(heap, c).present

(***************************************************************************)
(* C21.  Fan-out parity: a handle constructed by New with two writers      *)
(* writes every record it emits to both of them, the first writer given    *)
(* first, so that the two sinks hold the same records in the same order    *)
(* after any sequence of writes; each write that passes the gate appends   *)
(* the same records to both, and one that does not appends to neither.     *)
(***************************************************************************)
C21_FanoutParity ==
    [][/\ sinks'[1] = sinks'[2]
       /\ last'.op = "Dispatch" =>
             /\ Extends(1)
             /\ Extends(2)
             /\ Written(1) = Written(2)
             /\ (last'.h # 0 /\ last'.sev >= handles[last'.h].level) =>
                   /\ Written(1) # <<>>
                   /\ Written(1)[Len(Written(1))] = RequestedRecord(last'.sev)
             /\ sinks'[Stdout] = <<>>]_vars

\* Both sinks hold a warn record and then an error record, written through
\* the handle attached to the carrier.
C21_Witness ==
    /\ last.op = "Dispatch"
    /\ last.attached # 0
    /\ handles[last.attached].logger.w = <<1, 2>>
    /\ sinks[1] = <<RequestedRecord(WarnLevel), RequestedRecord(ErrorLevel)>>
    /\ sinks[2] = sinks[1]

\* The keys the tracing bridge writes.
TraceKeys == {"trace_id", "span_id"}

\* No key of the list is a tracing key.
NoTraceKeys(flat) ==
    \A i \in KeyPositions(flat) : flat[i] \notin {AnyStr(k) : k \in TraceKeys}

\* The field list of carrier c holds the identifiers of span sp as
\* WithTracing folds them in, and no tracing key after them.
EnrichedFrom(c, sp) ==
    LET flat == FieldList(c)
    IN \E i \in KeyPositions(flat) :
          /\ i + 3 <= Len(flat)
          /\ SubSeq(flat, i, i + 3) = TraceFields(sp)
          /\ NoTraceKeys(SubSeq(flat, i + 4, Len(flat)))

RECURSIVE SpaceJoined(_)
SpaceJoined(args) ==
    IF Len(args) = 0 THEN ""
    ELSE IF Len(args) = 1 THEN FmtV(args[1])
    ELSE FmtV(args[1]) \o " " \o SpaceJoined(Tail(args))

(***************************************************************************)
(* C23, as stated.  A write in the ln style renders its message with a     *)
(* separator between every two consecutive arguments, whatever their       *)
(* types, while the plain args style joins string arguments without one.   *)
(***************************************************************************)
C23_LnInsertsSeparators ==
    [][\A c \in ctxs, sev \in StyleSeverities, a \in StyleArgs :
          /\ (Dispatch(c, sev, "ln", <<>>, a) /\ Written(1) # <<>>) =>
                Written(1)[Len(Written(1))].message = SpaceJoined(a)
          /\ (/\ Dispatch(c, sev, "args", <<>>, a)
              /\ Written(1) # <<>>
              /\ \A i \in DOMAIN a : IsString(a[i])) =>
                Written(1)[Len(Written(1))].message = a[1].s \o a[2].s]_vars

(***************************************************************************)
(* C24.  Dispatch leaves the level unchanged: a dispatch, with or without  *)
(* the missing-logger warning, changes no handle; a step changes the level *)
(* of a handle that exists only when it is a SetLogLevel that resolved     *)
(* that handle with a text that names a level, and the level and the gate  *)
(* of the handle then become the level named.                              *)
(***************************************************************************)
C24_DispatchKeepsLevel ==
    [][/\ last'.op = "Dispatch" => handles' = handles
       /\ \A h \in DOMAIN handles :
             (\/ handles'[h].level # handles[h].level
              \/ handles'[h].logger.level # handles[h].logger.level) =>
                /\ last'.op = "SetLogLevel"
                /\ last'.h = h
                /\ NamesALevel(last'.text)
                /\ LevelString(handles'[h].level) = LevelNameOf(last'.text)
                /\ handles'[h].logger.level = handles'[h].level]_vars

\* A fallback dispatch below the gate has written the warning alone, through
\* a handle whose level an earlier SetLogLevel made warn.
C24_Witness ==
    /\ last.op = "Dispatch"
    /\ last.attached = 0
    /\ last.h # 0
    /\ last.sev = InfoLevel
    /\ handles[last.h].level = WarnLevel
    /\ handles[last.h].logger.level = WarnLevel
    /\ sinks[1] # <<>>
    /\ sinks[1][Len(sinks[1])] = WarningRecord

\* The level a text names.
LevelNamed(text) == CHOOSE l \in Levels : LevelString(l) = LevelNameOf(text)

\* Whether a dispatch through carrier c at severity sev in style st, made in
\* this state, writes the requested record, and the handle it uses.
WouldWrite(c, sev, st) ==
    LET r == withLogger(sinks, c, sev, st, IF st = "f" THEN Format ELSE <<>>, Args)
        new == SubSeq(r.sinks[1], Len(sinks[1]) + 1, Len(r.sinks[1]))
    IN [h |-> r.h,
        written |-> new # <<>> /\ new[Len(new)] = RequestedRecord(sev)]

(***************************************************************************)
(* C25.  Shared handle level: once a SetLogLevel with a text that names a  *)
(* level has resolved handle H, through a carrier attached to H or through *)
(* the fallback, then through every carrier held that resolves H a         *)
(* GetLogLevel returns the name of that level and a write of any severity  *)
(* in any style uses H and is written exactly when its severity is at or   *)
(* above that level.                                                       *)
(***************************************************************************)
C25_SharedLevel ==
    (last.op = "SetLogLevel" /\ last.h # 0 /\ NamesALevel(last.text)) =>
        \A c \in ctxs :
            Resolve(c) = last.h =>
               /\ HandleGetLogLevel(Resolve(c)) = LevelNameOf(last.text)
               /\ \A sev \in Severities, st \in Styles :
                     /\ WouldWrite(c, sev, st).h = last.h
                     /\ WouldWrite(c, sev, st).written
                           <=> sev >= LevelNamed(last.text)

\* SetLogLevel("WARN") through a carrier without a handle has reached the
\* process-wide handle, to which another carrier held is attached and
\* through which a debug record was written before.
C25_Witness ==
    /\ last.op = "SetLogLevel"
    /\ last.text = "WARN"
    /\ last.attached = 0
    /\ last.h # 0
    /\ last.h = globalLogger
    /\ \E c \in ctxs : loggerFromContextValue(c) = last.h
    /\ handles[last.h].logger.level = WarnLevel
    /\ \E i \in DOMAIN sinks[1] : sinks[1][i] = RequestedRecord(DebugLevel)

\* The number of entries of a sequence of records that are the record rec.
CountOf(recs, rec) == Cardinality({i \in DOMAIN recs : recs[i] = rec})

(***************************************************************************)
(* C26.  The fallback warning obeys the level gate: a dispatch through a   *)
(* carrier without a handle, while a process-wide handle exists, writes    *)
(* the missing-logger warning once if that handle's level is warn or       *)
(* lower and not at all if it is error or higher; whether or not the       *)
(* warning was written, the requested record is written once if its        *)
(* severity is at or above the handle's level and not at all otherwise.    *)
(***************************************************************************)
C26_WarningGated ==
    [][(last'.op = "Dispatch" /\ last'.attached = 0 /\ globalLogger # 0) =>
          LET level == handles[globalLogger].level
              new == Written(1)
          IN /\ Extends(1)
             /\ CountOf(new, WarningRecord)
                   = (IF level <= WarnLevel THEN 1 ELSE 0)
             /\ level >= ErrorLevel => WarningRecord \notin {new[i] : i \in DOMAIN new}
             /\ CountOf(new, RequestedRecord(last'.sev))
                   = (IF last'.sev >= level THEN 1 ELSE 0)
             /\ Len(new) = CountOf(new, WarningRecord)
                              + CountOf(new, RequestedRecord(last'.sev))]_vars

\* A fallback dispatch of an error through a handle at level error has
\* written the error record and no warning.
C26_Witness ==
    /\ last.op = "Dispatch"
    /\ last.attached = 0
    /\ last.h # 0
    /\ last.sev = ErrorLevel
    /\ handles[last.h].level = ErrorLevel
    /\ sinks[1] = <<RequestedRecord(ErrorLevel)>>

(***************************************************************************)
(* C27.  Level/threshold consistency: whenever no SetLogLevel is inside    *)
(* its critical section on a handle, and so at construction and after      *)
(* every completed SetLogLevel, the level GetLogLevel reports and the      *)
(* threshold the logger gates against are the same; a GetLogLevel that     *)
(* has loaded the level under the read lock has loaded the threshold in    *)
(* force, and a write that has copied the logger under the read lock has   *)
(* copied a threshold that is the level reported.                          *)
(***************************************************************************)
C27_LevelIsThreshold ==
    \A h \in DOMAIN handles :
        /\ mu[h].w = 0 => handles[h].level = handles[h].logger.level
        /\ \A p \in Procs :
              procs[p].h = h =>
                 /\ procs[p].pc = "get384" =>
                       procs[p].lvl = handles[h].logger.level
                 /\ procs[p].pc = "write391" =>
                       procs[p].obs.level = handles[h].level

\* A SetLogLevel has completed; a write has copied the logger with the new
\* threshold under the read lock while the other goroutine waits to set the
\* level again.
C27_Witness ==
    /\ last.op = "ZeroLogger.SetLogLevel"
    /\ last.ret = "nil"
    /\ last.str = "debug"
    /\ handles[1].level = DebugLevel
    /\ mu[1].w = 0
    /\ \E p \in Procs, q \in Procs :
          /\ procs[p].pc = "write391"
          /\ procs[p].obs.level = DebugLevel
          /\ p \in mu[1].r
          /\ procs[q].pc = "set372"
          /\ procs[q].lvl = WarnLevel

(***************************************************************************)
(* C28.  Derivation preserves the other slot: the carrier WithFields or    *)
(* WithField returns has the handle of the carrier given, none when that   *)
(* one had none; the carrier New returns, with or without an error, has    *)
(* the field storage of the carrier given and so the same                  *)
(* FieldsFromContext; and a carrier with both slots filled reads each as   *)
(* it was stored.                                                          *)
(***************************************************************************)
C28_SlotsIndependent ==
    [][/\ last'.op \in {"WithFields", "WithField"} =>
             /\ loggerFromContextValue(last'.out)
                   = loggerFromContextValue(last'.in)
             /\ Resolve(last'.out) = Resolve(last'.in)
       /\ \A c \in ctxs, t \in SlotsTexts :
             New(c, t, <<1>>) =>
                /\ last'.out.fields = OrBackground(c).fields
                /\ heap' = heap
                /\ last'.out \in ctxs' =>
                      FieldsFromContext(heap', last'.out)
                         = FieldsFromContext(heap, c)
                /\ last'.ret = "ok" =>
                      loggerFromContextValue(last'.out) = globalLogger']_vars

\* New has attached the process-wide handle to a carrier with fields: the
\* carrier returned has the fields of a carrier held that has no handle,
\* and both are held.
C28_Witness ==
    /\ last.op = "New"
    /\ last.ret = "ok"
    /\ last.out \in ctxs
    /\ loggerFromContextValue(last.out) = globalLogger
    /\ globalLogger # 0
    /\ FieldsFromContext(heap, last.out).present
    /\ \E d \in ctxs :
          /\ loggerFromContextValue(d) = 0
          /\ d.fields = last.out.fields
          /\ FieldsFromContext(heap, d) = FieldsFromContext(heap, last.out)

\* The carriers held whose handle is not the process-wide one: it was
\* attached before a Reset.
Stale == {c \in ctxs : loggerFromContextValue(c) \notin {0, globalLogger}}

(***************************************************************************)
(* C29.  Stale carriers after Reset: Reset and a later New leave every     *)
(* carrier held, and the handle attached to it, as they were.  Through a   *)
(* carrier whose handle is an earlier one, a dispatch of any severity in   *)
(* any style uses that handle, writes to its sinks alone, exactly when     *)
(* the severity is at or above its level, and writes no missing-logger     *)
(* warning; a SetLogLevel through such a carrier changes no other handle,  *)
(* and a SetLogLevel that resolves the process-wide handle changes no      *)
(* earlier one.                                                            *)
(***************************************************************************)
C29_StaleCarriers ==
    /\ [](\A c \in Stale :
             LET a == loggerFromContextValue(c)
             IN /\ a \in DOMAIN handles
                /\ \A sev \in Severities, st \in Styles :
                      LET r == withLogger(sinks, c, sev, st,
                                          IF st = "f" THEN Format ELSE <<>>, Args)
                      IN /\ r.h = a
                         /\ r.ret = "void"
                         /\ \A k \in Sinks :
                               r.sinks[k] =
                                  IF k \in SinksOf(a) /\ sev >= handles[a].level
                                  THEN Append(sinks[k], RequestedRecord(sev))
                                  ELSE sinks[k])
    /\ [][/\ last'.op \in {"Reset", "New"} =>
                /\ ctxs \subseteq ctxs'
                /\ \A h \in DOMAIN handles : handles'[h] = handles[h]
          /\ (last'.op = "Dispatch" /\ last'.attached \notin {0, globalLogger}) =>
                /\ last'.h = last'.attached
                /\ \A k \in Sinks :
                      /\ Extends(k)
                      /\ WarningRecord \notin {Written(k)[i] : i \in DOMAIN Written(k)}
                      /\ k \notin SinksOf(last'.attached) => Written(k) = <<>>
          /\ last'.op = "SetLogLevel" =>
                /\ last'.attached \notin {0, globalLogger} =>
                      /\ last'.h = last'.attached
                      /\ \A g \in DOMAIN handles :
                            g # last'.attached => handles'[g] = handles[g]
                      /\ NamesALevel(last'.text) =>
                            LevelString(handles'[last'.attached].level)
                               = LevelNameOf(last'.text)
                /\ last'.h = globalLogger =>
                      \A g \in DOMAIN handles :
                         g # globalLogger => handles'[g] = handles[g]]_vars

\* After a Reset and a second New, a SetLogLevel and then an error write
\* through the carrier of the first handle have reached the first handle
\* and its sink alone; the second handle has its own level and an empty sink.
C29_Witness ==
    /\ last.op = "Dispatch"
    /\ last.attached = 1
    /\ last.h = 1
    /\ globalLogger = 2
    /\ handles[1].level = ErrorLevel
    /\ handles[2].level = WarnLevel
    /\ handles[1].logger.w = <<1>>
    /\ handles[2].logger.w = <<2>>
    /\ sinks[1] = <<RequestedRecord(ErrorLevel)>>
    /\ sinks[2] = <<>>

\* Goroutine p takes the step that logs the warning, or the step that calls
\* fn, of a fallback dispatch.
WarnStep(p) == procs[p].pc = "wl104" /\ procs'[p].pc # "wl104"
FnStep(p) == procs[p].pc = "wl108" /\ procs'[p].pc # "wl108"

\* In such a step the handle invoked exists and is the one the existence
\* check saw, the one the warning went through and the one attached to the
\* carrier passed to fn.
UsesOneHandle(p) ==
    /\ WarnStep(p) =>
          /\ last'.ret # "panic"
          /\ procs'[p].h = procs[p].seen
    /\ FnStep(p) =>
          /\ last'.ret = "void"
          /\ last'.h # 0
          /\ last'.h = procs[p].seen
          /\ last'.h = procs[p].h
          /\ last'.h = loggerFromContextValue(procs[p].ctx)

(***************************************************************************)
(* C30, as stated.  Within a fallback dispatch the existence check, the    *)
(* warning and the requested write use the same process-wide handle and    *)
(* no operation is invoked on an absent handle, whatever New and Reset     *)
(* calls run in between.                                                   *)
(***************************************************************************)
C30_OneHandle ==
    [][\A p \in Procs : UsesOneHandle(p)]_vars

(***************************************************************************)
(* C30, amended.  Within a fallback dispatch during which no Reset runs,   *)
(* the existence check, the warning and the requested write use the same   *)
(* process-wide handle and no operation is invoked on an absent handle,    *)
(* whatever New calls run in between.                                      *)
(***************************************************************************)
C30_OneHandleWithoutReset ==
    [][\A p \in Procs : ~procs[p].raced => UsesOneHandle(p)]_vars

\* A fallback dispatch has written the warning and the error record through
\* the second handle, constructed after a Reset that ran before the
\* dispatch, while the other goroutine is inside a dispatch of its own that
\* no Reset has crossed.
C30_Witness ==
    /\ last.op = "Dispatch"
    /\ last.attached = 0
    /\ last.ret = "void"
    /\ last.h = 2
    /\ globalLogger = 2
    /\ \E k \in SinksOf(2) :
          /\ Len(sinks[k]) >= 2
          /\ sinks[k][Len(sinks[k])] = RequestedRecord(ErrorLevel)
          /\ WarningRecord \in {sinks[k][i] : i \in DOMAIN sinks[k]}
    /\ \E q \in Procs :
          /\ procs[q].pc = "wl108"
          /\ ~procs[q].raced
          /\ procs[q].h = 2

=============================================================================
